---- MODULE Spec2Model ----
(***************************************************************************)
(* Model of the aiodrf serializers and pagination helpers.                 *)
(*                                                                         *)
(* Python values are represented as follows.                               *)
(*   - a dict is a function whose DOMAIN is the set of its keys;           *)
(*   - an attribute that may be absent (hasattr) or a value that may be    *)
(*     None is a sequence of length 0 (absent / None) or 1 (the value);    *)
(*   - a model instance is a record [id, text, foreign_key_id];            *)
(*   - the model table is a function from ids to rows [text,               *)
(*     foreign_key_id], the many-to-many link table a set of pairs         *)
(*     <<test_id, testincluded_id>>, and the id sequence a counter.        *)
(***************************************************************************)
EXTENDS Integers, Sequences, FiniteSets, TLC

\* ------------------------------------------------------------------ bounds
MaxId == 5
MaxFinal == 14
MaxYield == 4
MaxItems == 2
MaxCount == 4

\* ------------------------------------------------------- program constants
\* rows of the related model that relations may point to
RelIds == {1, 2}
\* NULL in a foreign key column
NullId == 0
\* a text too long for CharField(max_length=128) stands for invalid input
TooLong == "too_long"
Texts == {"a", "b"}
\* value of a CharField column that was given no value
DefaultText == ""

\* ------------------------------------------------------------ python values
None == <<>>
Some(v) == <<v>>
IsNone(o) == Len(o) = 0
Get(o) == o[1]

EmptyDict == [k \in {} |-> 0]
HasKey(d, k) == k \in DOMAIN d
\* {**a, **b}
Merge(a, b) == [k \in (DOMAIN a) \cup (DOMAIN b) |-> IF k \in DOMAIN b THEN b[k] ELSE a[k]]
\* dict without some keys
Without(d, ks) == [k \in (DOMAIN d) \ ks |-> d[k]]
\* d[k] = v
With(d, k, v) == [x \in (DOMAIN d) \cup {k} |-> IF x = k THEN v ELSE d[x]]
\* d.get(k, default)
GetOr(d, k, default) == IF k \in DOMAIN d THEN d[k] ELSE default

Max(S) == CHOOSE x \in S : \A y \in S : y <= x

VARIABLES
    table,      \* aiodrf_test rows: id -> [text, foreign_key_id]
    links,      \* aiodrf_test_many_to_many rows: <<test_id, testincluded_id>>
    nextId,     \* next value of the id sequence of aiodrf_test
    ser,        \* the serializer objects, by class
    ret,        \* outcome of the last call on a serializer
    proc,       \* the running update / acreate coroutines
    iters,      \* the running async iterations
    iter_count, \* JSONAPIBaseSerializer.iter_count
    pages,      \* last call of _get_displayed_page_numbers
    hist,       \* which calls the serializer has seen so far
    paginator,  \* the pagination object and the request it serves
    view,       \* the generic view object
    doc         \* last JSON:API document or filter that was built

vars == <<table, links, nextId, ser, ret, proc, iters, iter_count, pages, hist,
          paginator, view, doc>>

\* ------------------------------------------------------------- the database
\* Model(*row): the in-memory instance of a stored row
ModelClass(id, row) == [id |-> id, text |-> row.text, foreign_key_id |-> row.foreign_key_id]
\* the column values an instance is saved with
RowOf(instance) == [text |-> instance.text, foreign_key_id |-> instance.foreign_key_id]
\* the related ids linked to a row
LinksOf(lnk, id) == {l[2] : l \in {x \in lnk : x[1] = id}}
\* instance.<to-many field>.aset(value): replace the links of the instance
aset(lnk, id, value) == {l \in lnk : l[1] # id} \cup {<<id, r>> : r \in value}
\* instance.asave(): write every column of the instance to its row
instance_asave(tbl, instance) == With(tbl, instance.id, RowOf(instance))

\* ------------------------------------------- ModelSerializerAsync.create
\* create that leaves the text of the validated data out of the new row
create_dropping_text(vd, tbl, lnk, nid) ==
    LET row == [text |-> DefaultText, foreign_key_id |-> GetOr(vd, "foreign_key", NullId)]
    IN  [instance |-> Some(ModelClass(nid, row)), table |-> With(tbl, nid, row),
         links |-> lnk, nextId |-> nid + 1]

\* pops the to-many relations, inserts one row through the manager's
\* acreate(**validated_data), then sets the to-many relations of the new row
create(vd, tbl, lnk, nid) ==
    LET many_to_many == IF HasKey(vd, "many_to_many") THEN Some(vd["many_to_many"]) ELSE None
        rest == Without(vd, {"many_to_many"})
        row  == [text |-> GetOr(rest, "text", DefaultText),
                 foreign_key_id |-> GetOr(rest, "foreign_key", NullId)]
        instance == ModelClass(nid, row)
    IN  [instance |-> Some(instance),
         table    |-> With(tbl, nid, row),
         links    |-> IF IsNone(many_to_many) THEN lnk
                      ELSE aset(lnk, nid, Get(many_to_many)),
         nextId   |-> nid + 1]

\* ------------------------------------------- ModelSerializerAsync.update
\* the loop over validated_data: every attribute that is not a to-many
\* relation is set on the instance
update_setattrs(instance, vd) ==
    [id |-> GetOr(vd, "id", instance.id),
     text |-> GetOr(vd, "text", instance.text),
     foreign_key_id |-> GetOr(vd, "foreign_key", instance.foreign_key_id)]

\* the to-many relations collected by the loop, set after the save
m2m_fields(vd) == IF HasKey(vd, "many_to_many") THEN Some(vd["many_to_many"]) ELSE None

\* update() that sets the to-many relations before it saves the instance
update_step_aset_first(st) ==
    IF st.pc = "setattr"
        THEN [st EXCEPT !.instance = update_setattrs(st.instance, st.vd), !.pc = "asave"]
    ELSE IF st.pc = "asave"
        THEN [st EXCEPT !.links = IF IsNone(m2m_fields(st.vd)) THEN st.links
                                  ELSE aset(st.links, st.instance.id, Get(m2m_fields(st.vd))),
                        !.pc = "aset"]
    ELSE IF st.pc = "aset"
        THEN [st EXCEPT !.table = instance_asave(st.table, st.instance),
                        !.pc = "return", !.returned = "instance"]
    ELSE st

\* one await-separated stage of update(): the loop that sets the attributes,
\* then instance.asave(), then the aset() of the to-many relations, then the
\* return of the instance that was passed in
update_step(st) ==
    IF st.pc = "setattr"
        THEN [st EXCEPT !.instance = update_setattrs(st.instance, st.vd), !.pc = "asave"]
    ELSE IF st.pc = "asave"
        THEN [st EXCEPT !.table = instance_asave(st.table, st.instance), !.pc = "aset"]
    ELSE IF st.pc = "aset"
        THEN [st EXCEPT !.links = IF IsNone(m2m_fields(st.vd)) THEN st.links
                                  ELSE aset(st.links, st.instance.id, Get(m2m_fields(st.vd))),
                        !.pc = "return", !.returned = "instance"]
    ELSE st

update_start(instance, vd, tbl, lnk) ==
    [pc |-> "setattr", instance |-> instance, vd |-> vd, table |-> tbl, links |-> lnk,
     returned |-> ""]

\* update() run to completion
update(instance, vd, tbl, lnk, nid) ==
    LET st == update_step(update_step(update_step(update_start(instance, vd, tbl, lnk))))
    IN  [instance |-> Some(st.instance), table |-> st.table, links |-> st.links,
         nextId |-> nid]

\* ---------------------------------------------------- the serializer object
Classes == {"ModelSerializerAsync", "ListSerializerAsync", "SerializerAsync",
            "JSONAPIBaseSerializer"}

\* what field validation reports for a dict: the names of the fields in error
FieldErrors(data) == {k \in DOMAIN data : k = "text" /\ data[k] = TooLong}

\* BaseSerializer.__init__(instance, data=empty) of the host framework, which
\* the three classes of serializers.py inherit: initial_data only when data
\* was passed
Construct(cls, instance, data) ==
    [cls |-> cls, instance |-> instance, initial_data |-> data,
     _validated_data |-> None, _errors |-> None, _data |-> None]

\* JSONAPIBaseSerializer.__init__: self._data = self.initial_data = data
JSONAPIConstruct(instance, data) ==
    [cls |-> "JSONAPIBaseSerializer", instance |-> instance, initial_data |-> data,
     _validated_data |-> None, _errors |-> None, _data |-> data]

\* outcome of a call: the exception raised ("" when none), the value
\* returned, and the create / update calls it made
Raise(op, exc) == [op |-> op, raised |-> exc, value |-> None, calls |-> <<>>]
Return(op, v, calls) == [op |-> op, raised |-> "", value |-> Some(v), calls |-> calls]
NoCall == [op |-> "", raised |-> "", value |-> None, calls |-> <<>>]

\* bool(self._errors): a dict (here the set of its keys) or, for the list
\* serializer, a list of errors is true when not empty
Truthy(self, errs) == IF self.cls = "ListSerializerAsync" THEN Len(errs) > 0 ELSE errs # {}

\* is_valid(): the inherited is_valid of the host framework, reached through
\* sync_to_async. Sets _validated_data and _errors once.
is_valid(self) ==
    IF IsNone(self.initial_data) THEN [self |-> self, ret |-> Raise("is_valid", "AssertionError")]
    ELSE IF ~IsNone(self._validated_data)
         THEN [self |-> self, ret |-> Return("is_valid", ~Truthy(self, Get(self._errors)), <<>>)]
    ELSE LET data == Get(self.initial_data)
             errs == IF self.cls = "ListSerializerAsync"
                     THEN IF \E i \in DOMAIN data : FieldErrors(data[i]) # {}
                          THEN [i \in DOMAIN data |-> FieldErrors(data[i])] ELSE <<>>
                     ELSE FieldErrors(data)
             ok == ~Truthy(self, errs)
             empty == IF self.cls = "ListSerializerAsync" THEN <<>> ELSE EmptyDict
         IN  [self |-> [self EXCEPT !._validated_data = Some(IF ok THEN data ELSE empty),
                                    !._errors = Some(errs)],
              ret  |-> Return("is_valid", ok, <<>>)]

\* JSONAPIBaseSerializer.is_valid: no check of initial_data (AttributeError
\* when it is missing); afterwards _errors is replaced by get_errors_formatted,
\* which is None (kept here as the empty set) when there is no error, so a
\* second call on valid data fails on None.get
JSONAPI_is_valid(self) ==
    IF IsNone(self._validated_data) /\ IsNone(self.initial_data)
    THEN [self |-> self, ret |-> Raise("is_valid", "AttributeError")]
    ELSE IF ~IsNone(self._validated_data) /\ Get(self._errors) = {}
    THEN [self |-> self, ret |-> Raise("is_valid", "AttributeError")]
    ELSE IF ~IsNone(self._validated_data)
    THEN [self |-> self, ret |-> Return("is_valid", FALSE, <<>>)]
    ELSE LET data == Get(self.initial_data)
             errs == FieldErrors(data)
         IN  [self |-> [self EXCEPT !._validated_data = Some(IF errs = {} THEN data ELSE EmptyDict),
                                    !._errors = Some(errs)],
              ret  |-> Return("is_valid", errs = {}, <<>>)]

\* to_representation(instance): the primitive dict of an instance
to_representation(instance) ==
    [id |-> instance.id, text |-> instance.text, foreign_key |-> instance.foreign_key_id]

\* data without the assertion that is_valid() was called
data_without_assertion(self) ==
    LET no_errors == IsNone(self._errors) \/ ~Truthy(self, Get(self._errors))
        fresh == IF ~IsNone(self.instance) /\ no_errors
                     THEN IF self.cls = "ListSerializerAsync"
                          THEN [i \in DOMAIN Get(self.instance) |->
                                   to_representation(Get(self.instance)[i])]
                          ELSE to_representation(Get(self.instance))
                 ELSE IF ~IsNone(self._validated_data) /\ no_errors
                     THEN Get(self._validated_data)
                 ELSE IF ~IsNone(self.initial_data) THEN Get(self.initial_data)
                 ELSE EmptyDict
        s2 == IF IsNone(self._data) THEN [self EXCEPT !._data = Some(fresh)] ELSE self
    IN  [self |-> s2, ret |-> Return("data", Get(s2._data), <<>>)]

\* SerializerAsync.data, and the same property of the host framework that the
\* model and list serializers reach through __get_async('data')
data(self) ==
    IF ~IsNone(self.initial_data) /\ IsNone(self._validated_data)
    THEN [self |-> self, ret |-> Raise("data", "AssertionError")]
    ELSE LET no_errors == IsNone(self._errors) \/ ~Truthy(self, Get(self._errors))
             fresh == IF ~IsNone(self.instance) /\ no_errors
                          THEN IF self.cls = "ListSerializerAsync"
                               THEN [i \in DOMAIN Get(self.instance) |->
                                        to_representation(Get(self.instance)[i])]
                               ELSE to_representation(Get(self.instance))
                      ELSE IF ~IsNone(self._validated_data) /\ no_errors
                          THEN Get(self._validated_data)
                      ELSE IF ~IsNone(self.initial_data) THEN Get(self.initial_data)
                      ELSE EmptyDict
             s2 == IF IsNone(self._data) THEN [self EXCEPT !._data = Some(fresh)] ELSE self
         IN  [self |-> s2, ret |-> Return("data", Get(s2._data), <<>>)]

\* JSONAPIBaseSerializer.data: past the assertion, the formatted errors when
\* there are any; otherwise _data, which __init__ has set to the data
\* argument and which is else made from the instance (to_representation of
\* the base class calls NotImplemented: TypeError), from _validated_data or
\* from get_initial()
JSONAPI_data(self) ==
    IF ~IsNone(self.initial_data) /\ IsNone(self._validated_data)
    THEN [self |-> self, ret |-> Raise("data", "AssertionError")]
    ELSE IF ~IsNone(self._errors) /\ Get(self._errors) # {}
    THEN [self |-> self, ret |-> Return("data", [errors |-> Get(self._errors)], <<>>)]
    ELSE IF ~IsNone(self._data)
    THEN [self |-> self, ret |-> Return("data", Get(self._data), <<>>)]
    ELSE IF ~IsNone(self.instance)
    THEN [self |-> self, ret |-> Raise("data", "TypeError")]
    ELSE LET fresh == IF ~IsNone(self._validated_data) THEN Get(self._validated_data)
                      ELSE EmptyDict
         IN  [self |-> [self EXCEPT !._data = Some(fresh)],
              ret |-> Return("data", fresh, <<>>)]

\* SerializerAsync.validated_data and JSONAPIBaseSerializer.validated_data
\* (whose loop over model objects changes nothing for primitive values)
validated_data(self) ==
    IF IsNone(self._validated_data)
    THEN [self |-> self, ret |-> Raise("validated_data", "AssertionError")]
    ELSE [self |-> self, ret |-> Return("validated_data", Get(self._validated_data), <<>>)]

\* ------------------------------------------- ModelSerializerAsync.save/asave
\* how the serializer class provides create() / update(): the inherited
\* methods of ModelSerializerAsync, or an override that returns None
Hooks == {"inherited", "returns_None"}

\* keyword arguments of save(**kwargs)
KwargsSet == {EmptyDict, [commit |-> FALSE], [text |-> "b"], [text |-> "a", commit |-> TRUE]}

\* the create / update branch shared by the four copies of the method:
\* update when the serializer holds an instance, create otherwise; the
\* returned object is stored in self.instance before it is checked
save_branch(op, self, vd, hook, tbl, lnk, nid) ==
    LET is_update == ~IsNone(self.instance)
        call == IF is_update THEN <<"update", self.instance, vd>> ELSE <<"create", None, vd>>
        r == IF hook = "returns_None"
                 THEN [instance |-> None, table |-> tbl, links |-> lnk, nextId |-> nid]
             ELSE IF is_update THEN update(Get(self.instance), vd, tbl, lnk, nid)
             ELSE create(vd, tbl, lnk, nid)
        s2 == [self EXCEPT !.instance = r.instance]
    IN  [self |-> s2, table |-> r.table, links |-> r.links, nextId |-> r.nextId,
         ret |-> IF IsNone(r.instance)
                 THEN [op |-> op, raised |-> "AssertionError", value |-> None, calls |-> <<call>>]
                 ELSE Return(op, Get(r.instance), <<call>>)]

Unchanged(self, tbl, lnk, nid, r) ==
    [self |-> self, table |-> tbl, links |-> lnk, nextId |-> nid, ret |-> r]

\* asave with the merge turned round, {**kwargs, **validated_data}
asave_kwargs_first(self, kwargs, hook, tbl, lnk, nid) ==
    IF IsNone(self._errors) \/ Truthy(self, Get(self._errors))
       \/ HasKey(kwargs, "commit") \/ ~IsNone(self._data)
    THEN Unchanged(self, tbl, lnk, nid, Raise("asave", "AssertionError"))
    ELSE save_branch("asave", self, Merge(kwargs, Get(self._validated_data)), hook, tbl, lnk, nid)

\* ModelSerializerAsync.asave
asave(self, kwargs, hook, tbl, lnk, nid) ==
    IF IsNone(self._errors)
    THEN Unchanged(self, tbl, lnk, nid, Raise("asave", "AssertionError"))
    ELSE IF Truthy(self, Get(self._errors))
    THEN Unchanged(self, tbl, lnk, nid, Raise("asave", "AssertionError"))
    ELSE IF HasKey(kwargs, "commit")
    THEN Unchanged(self, tbl, lnk, nid, Raise("asave", "AssertionError"))
    ELSE IF ~IsNone(self._data)
    THEN Unchanged(self, tbl, lnk, nid, Raise("asave", "AssertionError"))
    ELSE save_branch("asave", self, Merge(Get(self._validated_data), kwargs), hook, tbl, lnk, nid)

\* ModelSerializerAsync.save, the blocking twin: the same guards, with
\* create / update driven by asyncio.run
save(self, kwargs, hook, tbl, lnk, nid) ==
    IF IsNone(self._errors)
    THEN Unchanged(self, tbl, lnk, nid, Raise("save", "AssertionError"))
    ELSE IF Truthy(self, Get(self._errors))
    THEN Unchanged(self, tbl, lnk, nid, Raise("save", "AssertionError"))
    ELSE IF HasKey(kwargs, "commit")
    THEN Unchanged(self, tbl, lnk, nid, Raise("save", "AssertionError"))
    ELSE IF ~IsNone(self._data)
    THEN Unchanged(self, tbl, lnk, nid, Raise("save", "AssertionError"))
    ELSE save_branch("save", self, Merge(Get(self._validated_data), kwargs), hook, tbl, lnk, nid)

\* ListSerializerAsync.aerrors: self.child.errors is read on the child
\* instance, a ModelSerializerAsync built by many_init, whose errors property
\* calls asyncio.run; asave runs inside the event loop, where asyncio.run
\* raises RuntimeError
ListSerializerAsync_aerrors(self) == Raise("aerrors", "RuntimeError")

\* ListSerializerAsync.asave
ListSerializerAsync_asave(self, kwargs, hook, tbl, lnk, nid) ==
    IF IsNone(self._errors)
    THEN Unchanged(self, tbl, lnk, nid, Raise("asave", "AssertionError"))
    ELSE LET e == ListSerializerAsync_aerrors(self) IN
    IF e.raised # ""
    THEN Unchanged(self, tbl, lnk, nid, Raise("asave", e.raised))
    ELSE IF Truthy(self, Get(e.value))
    THEN Unchanged(self, tbl, lnk, nid, Raise("asave", "AssertionError"))
    ELSE IF HasKey(kwargs, "commit")
    THEN Unchanged(self, tbl, lnk, nid, Raise("asave", "AssertionError"))
    ELSE IF ~IsNone(self._data)
    THEN Unchanged(self, tbl, lnk, nid, Raise("asave", "AssertionError"))
    \* {**await self.avalidated_data, **kwargs} of a list
    ELSE Unchanged(self, tbl, lnk, nid, Raise("asave", "TypeError"))

\* ------------------------------------------------------ initial conditions
\* the fixture: n rows with ids 1..n, the first linked to related row 1
FixtureTable(n) == [i \in 1..n |-> [text |-> IF i = 1 THEN "a" ELSE "b", foreign_key_id |-> NullId]]
FixtureLinks == {<<1, 1>>}

\* the dicts a client submits
DataDicts ==
    {[text |-> t] : t \in Texts \cup {TooLong}}
    \cup {[text |-> t, foreign_key |-> 1, many_to_many |-> m] : t \in Texts, m \in {{}, {1, 2}}}
\* the lists a client submits to a serializer built with many=True
DataLists == {<<[text |-> t]>> : t \in Texts \cup {TooLong}}
             \cup {<<[text |-> "a"], [text |-> t]>> : t \in Texts \cup {TooLong}}

IdleProc == <<>>
IdleIters == <<>>
IdlePages == <<>>
IdlePaginator == <<>>
IdleView == <<>>
IdleDoc == <<>>
\* no pagination object, no view and no document exist
IdleWeb ==
    /\ paginator = IdlePaginator
    /\ view = IdleView
    /\ doc = IdleDoc
\* what the serializer has seen: whether is_valid() was called, whether .data
\* was read, and the last save / asave call (its arguments, and the serializer
\* and the tables as they were when it was made)
NoHist(s, tbl, lnk) ==
    [is_valid_called |-> FALSE, data_accessed |-> FALSE, kwargs |-> EmptyDict,
     hook |-> "inherited", pre |-> s, table |-> tbl, links |-> lnk]

InitDatabase ==
    \E n \in 1..2 :
        /\ table = FixtureTable(n)
        /\ links = FixtureLinks
        /\ nextId = n + 1

Idle ==
    /\ proc = IdleProc
    /\ iters = IdleIters
    /\ iter_count = 0
    /\ pages = IdlePages

\* a serializer of one of the four classes, constructed with an instance,
\* with data, with both or with neither
Init ==
    /\ IdleWeb
    /\ InitDatabase
    /\ Idle
    /\ ret = NoCall
    /\ \/ \E inst \in {None} \cup {Some(ModelClass(i, table[i])) : i \in DOMAIN table},
             d \in {None} \cup {Some(x) : x \in DataDicts} :
             ser = Construct("ModelSerializerAsync", inst, d)
       \/ \E inst \in {None, Some(<<ModelClass(1, table[1])>>)},
             d \in {None} \cup {Some(x) : x \in DataLists} :
             ser = Construct("ListSerializerAsync", inst, d)
       \/ \E inst \in {None, Some(ModelClass(1, table[1]))},
             d \in {None} \cup {Some(x) : x \in DataDicts} :
             ser = Construct("SerializerAsync", inst, d)
       \/ \E inst \in {None, Some(ModelClass(1, table[1]))},
             d \in {None} \cup {Some(x) : x \in DataDicts} :
             ser = JSONAPIConstruct(inst, d)
    /\ hist = NoHist(ser, table, links)

\* ------------------------------------------------------------------ actions
Apply(r) ==
    /\ ser' = r.self
    /\ table' = r.table
    /\ links' = r.links
    /\ nextId' = r.nextId
    /\ ret' = r.ret

Called(kwargs, hook) ==
    [hist EXCEPT !.kwargs = kwargs, !.hook = hook, !.pre = ser, !.table = table, !.links = links]

\* serializer.is_valid()
IsValid ==
    /\ LET r == IF ser.cls = "JSONAPIBaseSerializer" THEN JSONAPI_is_valid(ser)
                ELSE is_valid(ser)
       IN  /\ ser' = r.self
           /\ ret' = r.ret
    /\ hist' = [hist EXCEPT !.is_valid_called = TRUE]
    /\ UNCHANGED <<paginator, view, doc, table, links, nextId, proc, iters, iter_count, pages>>

\* serializer.data
AccessData ==
    /\ LET r == IF ser.cls = "JSONAPIBaseSerializer" THEN JSONAPI_data(ser) ELSE data(ser)
       IN  /\ ser' = r.self
           /\ ret' = r.ret
           /\ hist' = [hist EXCEPT !.data_accessed = @ \/ r.ret.raised = ""]
    /\ UNCHANGED <<paginator, view, doc, table, links, nextId, proc, iters, iter_count, pages>>

\* serializer.validated_data
AccessValidatedData ==
    /\ LET r == validated_data(ser)
       IN  /\ ser' = r.self
           /\ ret' = r.ret
    /\ UNCHANGED <<paginator, view, doc, table, links, nextId, proc, iters, iter_count, pages, hist>>

\* await serializer.asave(**kwargs)
Asave ==
    /\ ser.cls \in {"ModelSerializerAsync", "ListSerializerAsync"}
    /\ nextId <= MaxId
    /\ \E kwargs \in KwargsSet, hook \in Hooks :
          /\ Apply(IF ser.cls = "ModelSerializerAsync"
                   THEN asave(ser, kwargs, hook, table, links, nextId)
                   ELSE ListSerializerAsync_asave(ser, kwargs, hook, table, links, nextId))
          /\ hist' = Called(kwargs, hook)
    /\ UNCHANGED <<paginator, view, doc, proc, iters, iter_count, pages>>

\* serializer.save(**kwargs)
Save ==
    /\ ser.cls = "ModelSerializerAsync"
    /\ nextId <= MaxId
    /\ \E kwargs \in KwargsSet, hook \in Hooks :
          /\ Apply(save(ser, kwargs, hook, table, links, nextId))
          /\ hist' = Called(kwargs, hook)
    /\ UNCHANGED <<paginator, view, doc, proc, iters, iter_count, pages>>

Next ==
    \/ IsValid
    \/ AccessData
    \/ AccessValidatedData
    \/ Asave
    \/ Save

Spec == Init /\ [][Next]_vars

\* ------------------------------------------------------------ claims C1..C4
\* the last call was save / asave on a serializer of class cls
LastSave(op, cls) == ret.op = op /\ hist.pre.cls = cls

\* the conditions the claims name, on the serializer as it was at the call:
\* is_valid() was called, the errors are empty, no 'commit' keyword, and the
\* serialized data has not been read
GuardsHold ==
    /\ hist.is_valid_called
    /\ IsNone(hist.pre._errors) \/ ~Truthy(hist.pre, Get(hist.pre._errors))
    /\ ~HasKey(hist.kwargs, "commit")
    /\ ~hist.data_accessed

NothingChanged ==
    /\ ser.instance = hist.pre.instance
    /\ table = hist.table
    /\ links = hist.links

\* C1: asave of the model serializer and of the list serializer reaches
\* create() or update() only if is_valid() was called, the errors are empty,
\* no 'commit' keyword is passed and .data has not been read; in every other
\* case it raises AssertionError and leaves self.instance and the stored rows
\* unchanged.
C1_AsaveGuards ==
    (ret.op = "asave") =>
        /\ (ret.calls # <<>>) => GuardsHold
        /\ (~GuardsHold) => (ret.raised = "AssertionError" /\ NothingChanged)

\* C2: when the guards of ModelSerializerAsync.asave pass, it calls
\* update(instance, validated_data merged with kwargs) exactly when the
\* serializer holds an instance and create(validated_data merged with kwargs)
\* otherwise, never both; the returned object is stored in self.instance and
\* returned, and AssertionError is raised when create / update returned None.
C2_AsaveDispatch ==
    (LastSave("asave", "ModelSerializerAsync") /\ GuardsHold /\ ~IsNone(hist.pre._errors)) =>
        LET merged == Merge(Get(hist.pre._validated_data), hist.kwargs) IN
        /\ Len(ret.calls) = 1
        /\ ret.calls[1] = IF IsNone(hist.pre.instance)
                          THEN <<"create", None, merged>>
                          ELSE <<"update", hist.pre.instance, merged>>
        /\ (hist.hook = "returns_None") =>
               (ret.raised = "AssertionError" /\ IsNone(ser.instance))
        /\ (hist.hook = "inherited") =>
               /\ ret.raised = ""
               /\ ret.value = ser.instance
               /\ ~IsNone(ser.instance)
               /\ Get(ser.instance).id \in DOMAIN table
               /\ table[Get(ser.instance).id] = RowOf(Get(ser.instance))
               /\ \A k \in DOMAIN merged \cap {"text"} : Get(ser.instance)[k] = merged[k]

C2_Witness ==
    /\ LastSave("asave", "ModelSerializerAsync")
    /\ GuardsHold
    /\ Len(ret.calls) = 1
    /\ ret.calls[1][1] = "update"
    /\ ret.raised = ""
    /\ HasKey(hist.kwargs, "text")
    /\ Get(hist.pre._validated_data)["text"] # hist.kwargs["text"]

\* C3: on a SerializerAsync or a JSON:API base serializer constructed with a
\* data argument, reading .data or .validated_data before any call of
\* is_valid() raises AssertionError.
C3_DataBeforeIsValid ==
    (/\ ser.cls \in {"SerializerAsync", "JSONAPIBaseSerializer"}
     /\ ~IsNone(ser.initial_data)
     /\ ~hist.is_valid_called
     /\ ret.op \in {"data", "validated_data"}) => ret.raised = "AssertionError"

C3_Witness ==
    /\ ser.cls = "JSONAPIBaseSerializer"
    /\ ~IsNone(ser.initial_data)
    /\ ~hist.is_valid_called
    /\ ret.op = "data"
    /\ ret.raised = "AssertionError"

C3_WitnessSerializerAsync ==
    /\ ser.cls = "SerializerAsync"
    /\ ~IsNone(ser.initial_data)
    /\ ~hist.is_valid_called
    /\ ret.op = "validated_data"
    /\ ret.raised = "AssertionError"

\* the last call was save() with no keyword argument on a model serializer
\* that held no instance, after is_valid() returned True
SaveAfterValid ==
    /\ LastSave("save", "ModelSerializerAsync")
    /\ hist.kwargs = EmptyDict
    /\ hist.hook = "inherited"
    /\ IsNone(hist.pre.instance)
    /\ ~IsNone(hist.pre._errors)
    /\ GuardsHold

UpdateDatas(ids) ==
    {[text |-> t] : t \in Texts}
    \cup {[foreign_key |-> f, many_to_many |-> m] : f \in RelIds \cup {NullId}, m \in SUBSET RelIds}
    \cup {[id |-> i, text |-> t, foreign_key |-> f] : i \in ids, t \in Texts, f \in RelIds}
    \cup {[text |-> t, many_to_many |-> m] : t \in Texts, m \in SUBSET RelIds}

IdleSer == Construct("ModelSerializerAsync", None, None)
IdleUpdate == [pc |-> "idle", instance |-> ModelClass(1, FixtureTable(1)[1]),
               vd |-> EmptyDict, returned |-> ""]

InitUpdate ==
    /\ IdleWeb
    /\ InitDatabase
    /\ ser = IdleSer
    /\ ret = NoCall
    /\ hist = NoHist(ser, table, links)
    /\ proc = IdleUpdate
    /\ iters = IdleIters
    /\ iter_count = 0
    /\ pages = IdlePages

\* await serializer.update(instance, validated_data), instance read from a row
UpdateCall ==
    /\ proc.pc = "idle"
    /\ \E i \in DOMAIN table, vd \in UpdateDatas(DOMAIN table) :
          proc' = [pc |-> "setattr", instance |-> ModelClass(i, table[i]), vd |-> vd,
                   returned |-> ""]
    /\ hist' = Called(EmptyDict, "inherited")
    /\ ret' = NoCall
    /\ UNCHANGED <<paginator, view, doc, table, links, nextId, ser, iters, iter_count, pages>>

\* the coroutine runs up to its next await
UpdateStep ==
    /\ proc.pc \in {"setattr", "asave", "aset"}
    /\ LET st == update_step([pc |-> proc.pc, instance |-> proc.instance, vd |-> proc.vd,
                              table |-> table, links |-> links, returned |-> proc.returned])
       IN  /\ proc' = [pc |-> st.pc, instance |-> st.instance, vd |-> st.vd,
                       returned |-> st.returned]
           /\ table' = st.table
           /\ links' = st.links
    /\ UNCHANGED <<paginator, view, doc, nextId, ser, ret, iters, iter_count, pages, hist>>

\* the caller receives the result
UpdateReturn ==
    /\ proc.pc = "return"
    /\ ret' = Return("update", proc.returned, <<>>)
    /\ proc' = [proc EXCEPT !.pc = "idle"]
    /\ UNCHANGED <<paginator, view, doc, table, links, nextId, ser, iters, iter_count, pages, hist>>

NextUpdate ==
    \/ UpdateCall
    \/ UpdateStep
    \/ UpdateReturn

SpecUpdate == InitUpdate /\ [][NextUpdate]_vars

\* the instance carries the values of the validated data that are not
\* to-many relations
CarriesScalars(instance, vd) ==
    /\ HasKey(vd, "id") => instance.id = vd["id"]
    /\ HasKey(vd, "text") => instance.text = vd["text"]
    /\ HasKey(vd, "foreign_key") => instance.foreign_key_id = vd["foreign_key"]

\* C5: update(instance, validated_data) sets every attribute that is not a
\* to-many relation on the instance, saves the instance, and only after the
\* save sets the to-many relations; afterwards the in-memory instance and the
\* row read back carry the values of validated_data, and the instance that
\* was passed in is the object returned.
C5_UpdateOrder ==
    /\ (proc.pc = "asave") =>
          /\ CarriesScalars(proc.instance, proc.vd)
          /\ table = hist.table
          /\ links = hist.links
    /\ (proc.pc = "aset") =>
          /\ proc.instance.id \in DOMAIN table
          /\ table[proc.instance.id] = RowOf(proc.instance)
          /\ links = hist.links
    /\ (proc.pc = "return" \/ ret.op = "update") =>
          /\ CarriesScalars(proc.instance, proc.vd)
          /\ CarriesScalars(ModelClass(proc.instance.id, table[proc.instance.id]), proc.vd)
          /\ HasKey(proc.vd, "many_to_many") =>
                LinksOf(links, proc.instance.id) = proc.vd["many_to_many"]
          /\ ~HasKey(proc.vd, "many_to_many") => links = hist.links
    /\ (ret.op = "update") => ret.value = Some("instance")

C5_Witness ==
    /\ ret.op = "update"
    /\ HasKey(proc.vd, "many_to_many")
    /\ HasKey(proc.vd, "text")
    /\ proc.vd["many_to_many"] = {1, 2}
    /\ table[proc.instance.id].text # hist.table[proc.instance.id].text
    /\ links # hist.links

\* ------------------------------------------ ModelSerializerAsync.acreate
\* the coroutines that call acreate, each on its own database connection
Callers == {"c1", "c2"}

\* ascending list of a set of ids: sorted(rows), rows compared by their id
RECURSIVE Sorted(_)
Sorted(S) == IF S = {} THEN <<>>
             ELSE LET m == CHOOSE x \in S : \A y \in S : x <= y
                  IN  <<m>> \o Sorted(S \ {m})
\* ORDER BY ID DESC LIMIT n
LastIds(S, n) == {x \in S : Cardinality({y \in S : y > x}) < n}

\* the loop over the relations of one item: the foreign key is moved to
\* foreign_key_id (None, NULL, when the item has none) and the to-many
\* relation is popped
acreate_item(item) ==
    With(Without(item, {"foreign_key", "many_to_many"}),
         "foreign_key_id", GetOr(item, "foreign_key", NullId))

\* many_to_many after the loop: the related ids of the last item that has any
acreate_many_to_many(items) ==
    LET having == {i \in DOMAIN items : HasKey(items[i], "many_to_many")}
    IN  IF having = {} THEN None ELSE Some(items[Max(having)]["many_to_many"])

\* the part of acreate before the connection is opened, and keys / is_many
acreate_prepare(arg) ==
    \* [validated_data] if type(validated_data) == dict else validated_data:
    \* arg.value already holds a dict argument as the one-item list
    LET items == arg.value
        validated == [i \in DOMAIN items |-> acreate_item(items[i])]
    IN  [pc |-> "insert", arg |-> arg, validated_data |-> validated,
         many_to_many |-> acreate_many_to_many(items),
         keys |-> (DOMAIN validated[1]) \ {"id"},
         is_many |-> Len(validated) > 1,
         idx |-> 1, inserted |-> <<>>, result |-> None]

\* the row INSERT ... (keys) VALUES (values) stores: data[key] for every key
\* of the first item. The items carry every column that is NOT NULL, as the
\* data of a serialized row does.
acreate_row(keys, item) ==
    [k \in keys |-> item[k]]

\* link rows that miss the id of the new row
acreate_links_without_id(lnk, id, many_to_many) == lnk \cup {<<NullId, r>> : r \in many_to_many}

\* the link rows acreate inserts for the new row: x[<model>_id] = result.id
\* for every related id x, then one INSERT per x
acreate_links(lnk, id, many_to_many) == lnk \cup {<<id, r>> : r \in many_to_many}

\* one statement of acreate on its connection. visible: the ids this
\* connection can read (committed rows and its own)
acreate_step(p, tbl, lnk, nid, visible) ==
    IF p.pc = "insert" THEN
        LET row == acreate_row(p.keys, p.validated_data[p.idx])
            last == p.idx = Len(p.validated_data)
        IN  [p |-> [p EXCEPT !.inserted = Append(@, nid),
                             !.idx = @ + 1,
                             !.pc = IF ~last THEN "insert"
                                    ELSE IF p.is_many THEN "select" ELSE "m2m",
                             !.result = IF p.is_many THEN None
                                        ELSE Some([is_list |-> FALSE,
                                                   items |-> <<ModelClass(nid, row)>>])],
             table |-> With(tbl, nid, row), links |-> lnk, nextId |-> nid + 1]
    ELSE IF p.pc = "select" THEN
        LET ids == Sorted(LastIds(visible, Len(p.validated_data)))
        IN  [p |-> [p EXCEPT !.pc = "commit",
                             !.result = Some([is_list |-> TRUE,
                                   items |-> [i \in DOMAIN ids |-> ModelClass(ids[i], tbl[ids[i]])]])],
             table |-> tbl, links |-> lnk, nextId |-> nid]
    ELSE IF p.pc = "m2m" THEN
        LET id == Get(p.result).items[1].id
        IN  [p |-> [p EXCEPT !.pc = "commit"],
             table |-> tbl,
             links |-> IF IsNone(p.many_to_many) THEN lnk
                       ELSE acreate_links(lnk, id, Get(p.many_to_many)),
             nextId |-> nid]
    ELSE [p |-> [p EXCEPT !.pc = "done"], table |-> tbl, links |-> lnk, nextId |-> nid]

\* a connection whose transaction is open
InFlight(p) == p.pc \in {"insert", "select", "m2m", "commit"}
\* the ids connection c can read: READ COMMITTED, plus its own rows
Visible(c) ==
    (DOMAIN table) \ UNION {{proc[o].inserted[i] : i \in DOMAIN proc[o].inserted} :
                            o \in {x \in Callers \ {c} : InFlight(proc[x])}}

\* validated data of one object, as the serializer of an existing row gives it
AcreateItems == {[id |-> 1, text |-> "a"], [id |-> 1, text |-> "b", foreign_key |-> 2]}
AcreateDicts ==
    AcreateItems \cup {[text |-> "b", many_to_many |-> m] : m \in {{}, {1, 2}}}
AcreateLists == UNION {[1..n -> AcreateItems] : n \in 1..MaxItems}
\* the argument of acreate: a dict (is_dict, value the list of that one dict)
\* or a list of dicts
AcreateArgs == {[is_dict |-> TRUE, value |-> <<d>>] : d \in AcreateDicts}
               \cup {[is_dict |-> FALSE, value |-> l] : l \in AcreateLists}

IdleAcreate == [pc |-> "idle", arg |-> [is_dict |-> TRUE, value |-> <<>>],
                validated_data |-> <<>>, many_to_many |-> None, keys |-> {},
                is_many |-> FALSE, idx |-> 1, inserted |-> <<>>, result |-> None]

InitAcreate ==
    /\ IdleWeb
    /\ table = FixtureTable(1)
    /\ links = FixtureLinks
    /\ nextId = 2
    /\ ser = IdleSer
    /\ ret = NoCall
    /\ hist = [c \in Callers |-> [ids |-> DOMAIN table, links |-> links]]
    /\ proc = [c \in Callers |-> IdleAcreate]
    /\ iters = IdleIters
    /\ iter_count = 0
    /\ pages = IdlePages

\* ids the open calls will still draw from the sequence
Pending == LET left(c) == IF proc[c].pc = "insert"
                          THEN Len(proc[c].validated_data) - proc[c].idx + 1 ELSE 0
           IN  left("c1") + left("c2")

\* await serializer.acreate(validated_data)
AcreateCall(c) ==
    /\ ~InFlight(proc[c])
    /\ \E arg \in AcreateArgs :
          /\ nextId + Pending + Len(arg.value) - 1 <= MaxId
          /\ proc' = [proc EXCEPT ![c] = acreate_prepare(arg)]
    /\ hist' = [hist EXCEPT ![c] = [ids |-> DOMAIN table, links |-> links]]
    /\ UNCHANGED <<paginator, view, doc, table, links, nextId, ser, ret, iters, iter_count, pages>>

\* the next statement of the call of c is executed
AcreateStep(c) ==
    /\ InFlight(proc[c])
    /\ LET r == acreate_step(proc[c], table, links, nextId, Visible(c))
       IN  /\ proc' = [proc EXCEPT ![c] = r.p]
           /\ table' = r.table
           /\ links' = r.links
           /\ nextId' = r.nextId
    /\ UNCHANGED <<paginator, view, doc, ser, ret, iters, iter_count, pages, hist>>

NextAcreate == \E c \in Callers : AcreateCall(c) \/ AcreateStep(c)

SpecAcreate == InitAcreate /\ [][NextAcreate]_vars

\* the call of c has returned
Returned(c) == proc[c].pc = "done"
\* the rows of the table that the call of c inserted
InsertedBy(c) == {proc[c].inserted[i] : i \in DOMAIN proc[c].inserted}

\* the field values of an item of validated data, as an instance has them
HasFieldsOf(instance, item) ==
    /\ HasKey(item, "text") => instance.text = item["text"]
    /\ instance.foreign_key_id = GetOr(item, "foreign_key", NullId)

\* C6: acreate called with a list of n >= 1 items returns a list of n new
\* instances; the i-th has an id greater than the id of the i-th source item
\* and the field values of the i-th item.
C6_AcreateList ==
    \A c \in Callers :
        (Returned(c) /\ ~proc[c].arg.is_dict) =>
            LET items == proc[c].arg.value
                res == Get(proc[c].result)
            IN  /\ res.is_list
                /\ Len(res.items) = Len(items)
                /\ \A i \in DOMAIN items :
                      /\ res.items[i].id \notin hist[c].ids
                      /\ res.items[i].id > items[i]["id"]
                      /\ HasFieldsOf(res.items[i], items[i])

\* the same, for lists of two items and more whose call ran alone
C6_AcreateListOfSeveral ==
    \A c \in Callers :
        (/\ Returned(c) /\ ~proc[c].arg.is_dict /\ Len(proc[c].arg.value) > 1
         /\ \A o \in Callers \ {c} : proc[o].pc = "idle") =>
            LET items == proc[c].arg.value
                res == Get(proc[c].result)
            IN  /\ res.is_list
                /\ Len(res.items) = Len(items)
                /\ \A i \in DOMAIN items :
                      /\ res.items[i].id \notin hist[c].ids
                      /\ res.items[i].id > items[i]["id"]
                      /\ HasFieldsOf(res.items[i], items[i])

\* C7: acreate called with a single dict inserts exactly one row and returns
\* one instance (not a list) with a fresh id and the field values of the
\* dict; for every to-many relation in the dict it inserts one link row per
\* related id, each referencing the id of the new row.
C7_AcreateDict ==
    \A c \in Callers :
        (Returned(c) /\ proc[c].arg.is_dict) =>
            LET item == proc[c].arg.value[1]
                res == Get(proc[c].result)
                new == res.items[1]
            IN  /\ ~res.is_list
                /\ Len(res.items) = 1
                /\ InsertedBy(c) = {new.id}
                /\ new.id \notin hist[c].ids
                /\ \A i \in hist[c].ids : new.id > i
                /\ new.id \in DOMAIN table
                /\ new = ModelClass(new.id, table[new.id])
                /\ HasFieldsOf(new, item)
                /\ {l \in links : l[1] = new.id} =
                      {<<new.id, r>> : r \in GetOr(item, "many_to_many", {})}

C7_Witness ==
    \E c \in Callers :
        /\ Returned(c)
        /\ proc[c].arg.is_dict
        /\ HasKey(proc[c].arg.value[1], "many_to_many")
        /\ Cardinality({l \in links : l[1] = Get(proc[c].result).items[1].id}) = 2

\* C18: when both callers call acreate with a list of several items, each
\* call, whatever the other does meanwhile, returns exactly the rows it
\* inserted.
C18_AcreateConcurrent ==
    (\A o \in Callers : ~proc[o].arg.is_dict /\ Len(proc[o].arg.value) > 1) =>
        \A c \in Callers :
            Returned(c) =>
                LET res == Get(proc[c].result)
                IN  {res.items[i].id : i \in DOMAIN res.items} = InsertedBy(c)

\* ------------------------------------------- ModelSerializerAsync.aupdate
\* validated_data after the loop over the relations: the foreign key moved
\* to foreign_key_id (None, NULL, when it was not given), the to-many
\* relation popped
aupdate_columns(vd) ==
    With(Without(vd, {"foreign_key", "many_to_many"}),
         "foreign_key_id", GetOr(vd, "foreign_key", NullId))

\* aupdate that inserts the new links without the DELETE before
aupdate_keeping_links(vd, tbl, lnk) ==
    IF ~HasKey(vd, "id")
    THEN [table |-> tbl, links |-> lnk, ret |-> Raise("aupdate", "ValueError")]
    ELSE LET cols == aupdate_columns(vd)
             id == vd["id"]
             lnk2 == IF HasKey(vd, "many_to_many")
                     THEN lnk \cup {<<id, r>> : r \in vd["many_to_many"]} ELSE lnk
         IN  IF id \notin DOMAIN tbl
             THEN [table |-> tbl, links |-> lnk, ret |-> Raise("aupdate", "TypeError")]
             ELSE LET row == [text |-> GetOr(cols, "text", tbl[id].text),
                              foreign_key_id |-> cols["foreign_key_id"]]
                  IN  [table |-> With(tbl, id, row), links |-> lnk2,
                       ret |-> Return("aupdate", ModelClass(id, row), <<>>)]

\* aupdate in one transaction: for a to-many relation DELETE FROM the link
\* table (every row of it) and insert the new links; then UPDATE ... SET
\* every key WHERE ID = id RETURNING *. Without a row of that id fetchone()
\* is None, Model(*None) raises TypeError and the transaction is rolled back.
aupdate(vd, tbl, lnk) ==
    IF ~HasKey(vd, "id")
    THEN [table |-> tbl, links |-> lnk, ret |-> Raise("aupdate", "ValueError")]
    ELSE LET cols == aupdate_columns(vd)
             id == vd["id"]
             lnk2 == IF HasKey(vd, "many_to_many")
                     THEN {<<id, r>> : r \in vd["many_to_many"]} ELSE lnk
         IN  IF id \notin DOMAIN tbl
             THEN [table |-> tbl, links |-> lnk, ret |-> Raise("aupdate", "TypeError")]
             ELSE LET row == [text |-> GetOr(cols, "text", tbl[id].text),
                              foreign_key_id |-> cols["foreign_key_id"]]
                  IN  [table |-> With(tbl, id, row), links |-> lnk2,
                       ret |-> Return("aupdate", ModelClass(id, row), <<>>)]

\* validated data handed to aupdate
AupdateDatas(ids) ==
    {[text |-> "b"]}
    \cup {[id |-> i, text |-> t] : i \in ids \cup {MaxId + 1}, t \in Texts}
    \cup {[id |-> i, foreign_key |-> f] : i \in ids, f \in RelIds \cup {NullId}}
    \cup {[id |-> i, text |-> t, many_to_many |-> m] : i \in ids, t \in Texts, m \in SUBSET RelIds}

InitAupdate ==
    /\ IdleWeb
    /\ InitDatabase
    /\ ser = IdleSer
    /\ ret = NoCall
    /\ hist = [vd |-> EmptyDict, table |-> table, links |-> links]
    /\ Idle

\* await serializer.aupdate(validated_data)
Aupdate ==
    /\ \E vd \in AupdateDatas(DOMAIN table) :
          LET r == aupdate(vd, table, links)
          IN  /\ table' = r.table
              /\ links' = r.links
              /\ ret' = r.ret
              /\ hist' = [vd |-> vd, table |-> table, links |-> links]
    /\ UNCHANGED <<paginator, view, doc, nextId, ser, proc, iters, iter_count, pages>>

NextAupdate == Aupdate

SpecAupdate == InitAupdate /\ [][NextAupdate]_vars

\* C8: after aupdate(validated_data) with an 'id' key returns, the stored row
\* of that id has, for every key of validated_data, the value given, and the
\* returned instance equals field by field the row read back.
C8_AupdateStores ==
    (ret.op = "aupdate" /\ ret.raised = "") =>
        LET vd == hist.vd
            id == vd["id"]
        IN  /\ HasKey(vd, "id")
            /\ id \in DOMAIN table
            /\ HasKey(vd, "text") => table[id].text = vd["text"]
            /\ HasKey(vd, "foreign_key") => table[id].foreign_key_id = vd["foreign_key"]
            /\ HasKey(vd, "many_to_many") => LinksOf(links, id) = vd["many_to_many"]
            /\ Get(ret.value) = ModelClass(id, table[id])

C8_Witness ==
    /\ ret.op = "aupdate"
    /\ ret.raised = ""
    /\ HasKey(hist.vd, "many_to_many")
    /\ hist.vd["many_to_many"] = {2}
    /\ LinksOf(hist.links, hist.vd["id"]) = {1}
    /\ table[hist.vd["id"]].text # hist.table[hist.vd["id"]].text

\* ------------------------------------------------------- async iteration
\* the declared fields of the serializer under iteration, in field order
FieldNames == <<"text", "int", "bool">>
\* the `async for` loops that run over one serializer object
Iterators == {"i1", "i2"}

\* SerializerAsync.__aiter__ is an async generator function: every call
\* makes a generator with its own position in fields.values()
SerializerAsync_aiter(count) == [gen |-> 0, iter_count |-> count]
\* the generator resumes: the next field, or the end of the loop
SerializerAsync_anext(gen, count) ==
    IF gen < Len(FieldNames)
    THEN [stop |-> FALSE, key |-> FieldNames[gen + 1], gen |-> gen + 1, iter_count |-> count]
    ELSE [stop |-> TRUE, key |-> "", gen |-> gen, iter_count |-> count]

\* JSONAPIBaseSerializer.__aiter__: self.iter_count = 0; return self
JSONAPI_aiter(count) == [gen |-> 0, iter_count |-> 0]
\* JSONAPIBaseSerializer.__anext__ on a serializer that has the attribute
\* `many` (JSONAPIManySerializer): list(fields.keys())[self.iter_count],
\* StopAsyncIteration on IndexError, else self.iter_count += 1
JSONAPI_anext(gen, count) ==
    IF count + 1 \in DOMAIN FieldNames
    THEN [stop |-> FALSE, key |-> FieldNames[count + 1], gen |-> gen, iter_count |-> count + 1]
    ELSE [stop |-> TRUE, key |-> "", gen |-> gen, iter_count |-> count]

IdleIter == [pc |-> "idle", gen |-> 0, yielded |-> <<>>]

InitIter ==
    /\ IdleWeb
    /\ InitDatabase
    /\ \E cls \in {"SerializerAsync", "JSONAPIBaseSerializer"} :
          ser = Construct(cls, Some(ModelClass(1, table[1])), None)
    /\ ret = NoCall
    /\ hist = NoHist(ser, table, links)
    /\ proc = IdleProc
    /\ iters = [i \in Iterators |-> IdleIter]
    /\ iter_count = 0
    /\ pages = IdlePages

\* an `async for field in serializer` loop starts: __aiter__ is called
Aiter(i) ==
    /\ iters[i].pc \in {"idle", "stopped"}
    /\ LET r == IF ser.cls = "SerializerAsync" THEN SerializerAsync_aiter(iter_count)
                ELSE JSONAPI_aiter(iter_count)
       IN  /\ iters' = [iters EXCEPT ![i] = [pc |-> "running", gen |-> r.gen, yielded |-> <<>>]]
           /\ iter_count' = r.iter_count
    /\ UNCHANGED <<paginator, view, doc, table, links, nextId, ser, ret, proc, pages, hist>>

\* the loop asks for its next item: __anext__ is awaited
Anext(i) ==
    /\ iters[i].pc = "running"
    /\ Len(iters[i].yielded) < MaxYield
    /\ LET r == IF ser.cls = "SerializerAsync" THEN SerializerAsync_anext(iters[i].gen, iter_count)
                ELSE JSONAPI_anext(iters[i].gen, iter_count)
       IN  /\ iters' = [iters EXCEPT ![i] =
                 IF r.stop THEN [@ EXCEPT !.pc = "stopped"]
                 ELSE [@ EXCEPT !.gen = r.gen, !.yielded = Append(@, r.key)]]
           /\ iter_count' = r.iter_count
    /\ UNCHANGED <<paginator, view, doc, table, links, nextId, ser, ret, proc, pages, hist>>

NextIter == \E i \in Iterators : Aiter(i) \/ Anext(i)

SpecIter == InitIter /\ [][NextIter]_vars

IsPrefix(p, q) == Len(p) <= Len(q) /\ \A k \in DOMAIN p : p[k] = q[k]

\* C9: async iteration over a serializer yields exactly one bound field per
\* field, in field order, and then stops, also when two iterations over the
\* same serializer object are interleaved.
C9_IterationIndependent ==
    \A i \in Iterators :
        /\ IsPrefix(iters[i].yielded, FieldNames)
        /\ (iters[i].pc = "stopped") => iters[i].yielded = FieldNames

\* the same for SerializerAsync alone, whose __aiter__ is a generator
C9_SerializerAsyncIteration ==
    (ser.cls = "SerializerAsync") => C9_IterationIndependent

\* ------------------------------------------ _get_displayed_page_numbers
\* the None that marks a break in the list of page numbers
Break == 0

SetToSeq(S) == Sorted(S)
\* list.insert(i, x) for 0 <= i <= len(list), i counted from 0
Insert(q, i, x) == SubSeq(q, 1, i) \o <<x>> \o SubSeq(q, i + 1, Len(q))

\* the page numbers with the trailing break decided one page late
displayed_page_numbers_late_break(current, final) ==
    IF final <= 5 THEN [i \in 1..final |-> i]
    ELSE LET included0 == {1, current - 1, current, current + 1, final}
             included1 == IF current <= 4 THEN included0 \cup {2, 3} ELSE included0
             included2 == IF current >= final - 3
                          THEN included1 \cup {final - 1, final - 2} ELSE included1
             sorted == SetToSeq({idx \in included2 : 0 < idx /\ idx <= final})
             first == IF current > 4 THEN Insert(sorted, 1, Break) ELSE sorted
         IN  IF current <= final - 3 THEN Insert(first, Len(first) - 1, Break) ELSE first

\* _get_displayed_page_numbers (paginations.py)
_get_displayed_page_numbers(current, final) ==
    IF final <= 5 THEN [i \in 1..final |-> i]
    ELSE LET included0 == {1, current - 1, current, current + 1, final}
             included1 == IF current <= 4 THEN included0 \cup {2, 3} ELSE included0
             included2 == IF current >= final - 3
                          THEN included1 \cup {final - 1, final - 2} ELSE included1
             sorted == SetToSeq({idx \in included2 : 0 < idx /\ idx <= final})
             first == IF current > 4 THEN Insert(sorted, 1, Break) ELSE sorted
         IN  IF current < final - 3 THEN Insert(first, Len(first) - 1, Break) ELSE first

InitPages ==
    /\ IdleWeb
    /\ InitDatabase
    /\ ser = IdleSer
    /\ ret = NoCall
    /\ hist = NoHist(ser, table, links)
    /\ proc = IdleProc
    /\ iters = IdleIters
    /\ iter_count = 0
    /\ pages = [current |-> 1, final |-> 1, result |-> <<1>>]

\* await _get_displayed_page_numbers(current, final), 1 <= current <= final
GetDisplayedPageNumbers ==
    /\ \E final \in 1..MaxFinal, current \in 1..MaxFinal :
          /\ current <= final
          /\ pages' = [current |-> current, final |-> final,
                       result |-> _get_displayed_page_numbers(current, final)]
    /\ UNCHANGED <<paginator, view, doc, table, links, nextId, ser, ret, proc, iters, iter_count, hist>>

NextPages == GetDisplayedPageNumbers

SpecPages == InitPages /\ [][NextPages]_vars

\* the page numbers of a list, without the breaks
Numbers(q) == {q[i] : i \in {k \in DOMAIN q : q[k] # Break}}

\* C10: for 1 <= current <= final the list is every page 1..final when
\* final <= 5; otherwise a strictly increasing sequence of page numbers
\* that starts with 1, ends with final and contains current, with a break
\* exactly at each place where page numbers are skipped and never two
\* adjacent breaks.
C10_DisplayedPages ==
    LET q == pages.result
        final == pages.final
        n == Len(q)
    IN  /\ (final <= 5) => q = [i \in 1..final |-> i]
        /\ q[1] = 1
        /\ q[n] = final
        /\ pages.current \in Numbers(q)
        /\ \A i \in 1..(n - 1) :
              /\ ~(q[i] = Break /\ q[i + 1] = Break)
              /\ (q[i] # Break /\ q[i + 1] # Break) => q[i + 1] = q[i] + 1
              /\ (q[i] # Break /\ q[i + 1] = Break) => q[i + 2] > q[i] + 1
        /\ \A i, j \in 1..n : (i < j /\ q[i] # Break /\ q[j] # Break) => q[i] < q[j]

C10_Witness ==
    /\ pages.final > 5
    /\ Cardinality({i \in DOMAIN pages.result : pages.result[i] = Break}) = 2
    /\ pages.current = pages.final - 4

\* ------------------------------------------------------ strings and numbers
\* a string is the sequence of its characters
Digits == <<"0", "1", "2", "3", "4", "5", "6", "7", "8", "9">>
IsDigit(c) == \E i \in DOMAIN Digits : Digits[i] = c
DigitValue(c) == (CHOOSE i \in DOMAIN Digits : Digits[i] = c) - 1

\* str(n) of an integer
RECURSIVE py_str_nat(_)
py_str_nat(n) == IF n < 10 THEN <<Digits[n + 1]>>
                 ELSE py_str_nat(n \div 10) \o <<Digits[(n % 10) + 1]>>
py_str(n) == IF n < 0 THEN <<"-">> \o py_str_nat(-n) ELSE py_str_nat(n)

\* str.strip() of blanks
RECURSIVE lstrip(_)
lstrip(s) == IF Len(s) > 0 /\ s[1] = " " THEN lstrip(Tail(s)) ELSE s
RECURSIVE rstrip(_)
rstrip(s) == IF Len(s) > 0 /\ s[Len(s)] = " " THEN rstrip(SubSeq(s, 1, Len(s) - 1)) ELSE s

RECURSIVE digits_value(_)
digits_value(s) == IF Len(s) = 0 THEN 0
                   ELSE 10 * digits_value(SubSeq(s, 1, Len(s) - 1)) + DigitValue(s[Len(s)])

\* int(s): None stands for ValueError. Blanks around the number and one sign
\* are accepted, at least one digit is required.
py_int(s) ==
    LET t == rstrip(lstrip(s))
        signed == Len(t) > 0 /\ t[1] \in {"-", "+"}
        d == IF signed THEN Tail(t) ELSE t
    IN  IF Len(d) = 0 \/ \E i \in DOMAIN d : ~IsDigit(d[i]) THEN None
        ELSE Some(IF signed /\ t[1] = "-" THEN 0 - digits_value(d) ELSE digits_value(d))

\* ---------------------------------------------------------- _positive_int
\* int(integer_string); ValueError when negative, or zero and strict; the
\* smaller of the number and cutoff when cutoff is true (not None, not 0)
_positive_int(integer_string, strict, cutoff) ==
    LET ret_ == py_int(integer_string) IN
    IF IsNone(ret_) THEN Raise("_positive_int", "ValueError")
    ELSE IF Get(ret_) < 0 \/ (Get(ret_) = 0 /\ strict) THEN Raise("_positive_int", "ValueError")
    ELSE IF ~IsNone(cutoff) /\ Get(cutoff) # 0
         THEN Return("_positive_int", IF Get(ret_) < Get(cutoff) THEN Get(ret_) ELSE Get(cutoff), <<>>)
    ELSE Return("_positive_int", Get(ret_), <<>>)

\* --------------------------------------------- LimitOffsetAsyncPagination
\* build of the interpreter: `with` on an object without __enter__ raises
\* TypeError (3.11 and later) or AttributeError (before)
WithErrors == {"TypeError", "AttributeError"}

\* a link: None, or a URL given by its query parameters
NoLink == [is_none |-> TRUE, url |-> EmptyDict]
Link(url) == [is_none |-> FALSE, url |-> url]

\* force_str of a parameter name: the name, or 'None' for None
force_str(key) == IF IsNone(key) THEN "None" ELSE Get(key)
\* replace_query_param(url, key, val): the query parameter is set to str(val)
replace_query_param(url, key, val) == With(url, force_str(key), py_str(val))
\* remove_query_param(url, key)
remove_query_param(url, key) == Without(url, {force_str(key)})

\* LimitOffsetAsyncPagination.get_limit: with limit_query_param set, the with
\* statement is given the coroutine that sync_to_async(contextlib.suppress)(...)
\* returns, which is no context manager: the statement raises before the
\* query parameter is read
get_limit(self, request, with_error) ==
    IF ~IsNone(self.limit_query_param)
    THEN Raise("get_limit", with_error)
    ELSE Return("get_limit", self.default_limit, <<>>)

\* LimitOffsetAsyncPagination.get_offset
get_offset(self, request) ==
    IF ~HasKey(request, "offset") THEN 0
    ELSE LET r == _positive_int(request["offset"], FALSE, None)
         IN  IF r.raised # "" THEN 0 ELSE Get(r.value)

\* list(queryset[offset:offset + limit]) of a queryset of count rows, by id
Slice(count, offset, limit) ==
    LET last == IF offset + limit < count THEN offset + limit ELSE count
    IN  [i \in 1..(IF last > offset THEN last - offset ELSE 0) |-> offset + i]

\* LimitOffsetAsyncPagination.paginate_queryset on a queryset of count rows
paginate_queryset(self, request, count, with_error) ==
    LET s1 == [self EXCEPT !.request = Some(request)]
        l == get_limit(s1, request, with_error)
    IN  IF l.raised # "" THEN [self |-> s1, ret |-> Raise("paginate_queryset", l.raised)]
        ELSE IF IsNone(Get(l.value))
        THEN [self |-> [s1 EXCEPT !.limit = Some(None)],
              ret |-> [op |-> "paginate_queryset", raised |-> "", value |-> None, calls |-> <<>>]]
        ELSE LET offset == get_offset(s1, request)
                 limit == Get(Get(l.value))
                 s2 == [s1 EXCEPT !.limit = Some(Some(limit)), !.count = Some(count),
                                  !.offset = Some(offset)]
             IN  [self |-> s2,
                  ret |-> Return("paginate_queryset",
                                 IF count = 0 \/ offset > count THEN <<>>
                                 ELSE Slice(count, offset, limit), <<>>)]

\* whether get_next_link / get_previous_link can read offset, limit and count
LinkError(self) ==
    IF IsNone(self.offset) \/ IsNone(self.limit) \/ IsNone(self.count) THEN "AttributeError"
    ELSE IF IsNone(Get(self.limit)) THEN "TypeError"
    ELSE ""

\* get_next_link that keeps a link to the page after the last row
get_next_link_past_end(self) ==
    IF LinkError(self) # "" THEN Raise("get_next_link", LinkError(self))
    ELSE LET offset == Get(self.offset)
             limit == Get(Get(self.limit))
         IN  IF offset + limit > Get(self.count) THEN Return("get_next_link", NoLink, <<>>)
             ELSE LET url == replace_query_param(Get(self.request), self.limit_query_param, limit)
                  IN  Return("get_next_link",
                             Link(replace_query_param(url, Some("offset"), offset + limit)), <<>>)

\* LimitOffsetAsyncPagination.get_next_link
get_next_link(self) ==
    IF LinkError(self) # "" THEN Raise("get_next_link", LinkError(self))
    ELSE LET offset == Get(self.offset)
             limit == Get(Get(self.limit))
         IN  IF offset + limit >= Get(self.count) THEN Return("get_next_link", NoLink, <<>>)
             ELSE LET url == replace_query_param(Get(self.request), self.limit_query_param, limit)
                  IN  Return("get_next_link",
                             Link(replace_query_param(url, Some("offset"), offset + limit)), <<>>)

\* LimitOffsetAsyncPagination.get_previous_link
get_previous_link(self) ==
    IF IsNone(self.offset) THEN Raise("get_previous_link", "AttributeError")
    ELSE IF Get(self.offset) <= 0 THEN Return("get_previous_link", NoLink, <<>>)
    ELSE IF LinkError(self) # "" THEN Raise("get_previous_link", LinkError(self))
    ELSE LET offset == Get(self.offset)
             limit == Get(Get(self.limit))
             url == replace_query_param(Get(self.request), self.limit_query_param, limit)
         IN  IF offset - limit <= 0
             THEN Return("get_previous_link", Link(remove_query_param(url, Some("offset"))), <<>>)
             ELSE Return("get_previous_link",
                         Link(replace_query_param(url, Some("offset"), offset - limit)), <<>>)

\* values of the offset query parameter: numbers, a number with a blank, a
\* word
OffsetStrings == {py_str(n) : n \in (0 - 1)..(MaxCount + 1)} \cup {<<"a">>, <<" ", "2">>}
\* values of the limit query parameter
LimitStrings == {py_str(n) : n \in (0 - 1)..3} \cup {<<"a">>, <<" ", "2">>}
\* the query parameters of the requests that are paginated
Requests ==
    {EmptyDict, [limit |-> <<"2">>, offset |-> <<"1">>]}
    \cup {[offset |-> o] : o \in OffsetStrings}
\* the query parameters of the requests get_limit is called with alone
LimitRequests == {EmptyDict} \cup {[limit |-> l] : l \in LimitStrings}

\* a pagination object of a class that sets limit_query_param (the default
\* 'limit', or None), default_limit and max_limit; no request served yet
InitLimitOffset ==
    /\ table = FixtureTable(1)
    /\ links = FixtureLinks
    /\ nextId = 2
    /\ Idle
    /\ ser = IdleSer
    /\ ret = NoCall
    /\ hist = [request |-> EmptyDict]
    /\ view = IdleView
    /\ doc = IdleDoc
    /\ \E lqp \in {None, Some("limit")}, dl \in {None, Some(2)}, ml \in {None, Some(2)} :
          paginator = [cls |-> "LimitOffsetAsyncPagination",
                       limit_query_param |-> lqp, default_limit |-> dl, max_limit |-> ml,
                       request |-> None, limit |-> None, offset |-> None, count |-> None]

\* await paginator.paginate_queryset(queryset, request)
PaginateQueryset ==
    /\ \E request \in Requests, count \in 0..MaxCount, e \in WithErrors :
          LET r == paginate_queryset(paginator, request, count, e)
          IN  /\ paginator' = r.self
              /\ ret' = r.ret
              /\ hist' = [request |-> request]
    /\ UNCHANGED <<table, links, nextId, ser, proc, iters, iter_count, pages, view, doc>>

\* await paginator.get_limit(request)
GetLimit ==
    /\ \E request \in LimitRequests, e \in WithErrors :
          /\ ret' = get_limit(paginator, request, e)
          /\ hist' = [hist EXCEPT !.request = request]
    /\ UNCHANGED <<table, links, nextId, ser, proc, iters, iter_count, pages, paginator, view, doc>>

\* await paginator.get_next_link()
GetNextLink ==
    /\ ret' = get_next_link(paginator)
    /\ UNCHANGED <<table, links, nextId, ser, proc, iters, iter_count, pages, hist, paginator,
                   view, doc>>

\* await paginator.get_previous_link()
GetPreviousLink ==
    /\ ret' = get_previous_link(paginator)
    /\ UNCHANGED <<table, links, nextId, ser, proc, iters, iter_count, pages, hist, paginator,
                   view, doc>>

NextLimitOffset ==
    \/ PaginateQueryset
    \/ GetLimit
    \/ GetNextLink
    \/ GetPreviousLink

SpecLimitOffset == InitLimitOffset /\ [][NextLimitOffset]_vars

\* paginate_queryset has set offset, limit and count
Paginated ==
    /\ ~IsNone(paginator.offset)
    /\ ~IsNone(paginator.count)
    /\ ~IsNone(paginator.limit)
    /\ ~IsNone(Get(paginator.limit))

\* C11: after paginate_queryset, get_next_link returns None exactly when
\* offset + limit >= count and otherwise a URL whose offset parameter is
\* offset + limit; get_previous_link returns None exactly when offset <= 0,
\* a URL without offset parameter when offset - limit <= 0, and otherwise a
\* URL whose offset parameter is offset - limit.
C11_LimitOffsetLinks ==
    (Paginated /\ ret.op \in {"get_next_link", "get_previous_link"}) =>
        LET offset == Get(paginator.offset)
            limit == Get(Get(paginator.limit))
            count == Get(paginator.count)
            link == Get(ret.value)
        IN  /\ ret.raised = ""
            /\ (ret.op = "get_next_link") =>
                  /\ link.is_none <=> (offset + limit >= count)
                  /\ ~link.is_none =>
                        /\ HasKey(link.url, "offset")
                        /\ py_int(link.url["offset"]) = Some(offset + limit)
            /\ (ret.op = "get_previous_link") =>
                  /\ link.is_none <=> (offset <= 0)
                  /\ (~link.is_none /\ offset - limit <= 0) => ~HasKey(link.url, "offset")
                  /\ (~link.is_none /\ offset - limit > 0) =>
                        /\ HasKey(link.url, "offset")
                        /\ py_int(link.url["offset"]) = Some(offset - limit)

C11_Witness ==
    /\ Paginated
    /\ ret.op = "get_previous_link"
    /\ ret.raised = ""
    /\ ~Get(ret.value).is_none
    /\ HasKey(Get(ret.value).url, "offset")
    /\ Get(paginator.offset) < Get(paginator.count)

\* C12: get_limit returns min(value, max_limit) when the limit query
\* parameter is a strictly positive integer, and default_limit, without
\* raising, when it is missing, not an integer, zero or negative.
C12_GetLimit ==
    (ret.op = "get_limit" /\ ~IsNone(paginator.limit_query_param)) =>
        LET name == Get(paginator.limit_query_param)
            given == IF HasKey(hist.request, name) THEN py_int(hist.request[name]) ELSE None
            max_limit == paginator.max_limit
        IN  /\ ret.raised = ""
            /\ IF ~IsNone(given) /\ Get(given) > 0
               THEN Get(ret.value) =
                       Some(IF ~IsNone(max_limit) /\ Get(max_limit) < Get(given)
                            THEN Get(max_limit) ELSE Get(given))
               ELSE Get(ret.value) = paginator.default_limit

\* ------------------------------------------------------- CursorPagination
\* CursorPagination.get_page_size: the same with statement as get_limit
get_page_size(self, request, with_error) ==
    IF ~IsNone(self.page_size_query_param)
    THEN Raise("get_page_size", with_error)
    ELSE Return("get_page_size", self.page_size, <<>>)

\* Cursor(offset, reverse, position), position a string or None
Cursor(offset, reverse, position) == [offset |-> offset, reverse |-> reverse, position |-> position]

\* the tokens encode_cursor collects before it builds the query string
encode_tokens(cursor) ==
    LET o == IF cursor.offset # 0 THEN [o |-> py_str(cursor.offset)] ELSE EmptyDict
        r == IF cursor.reverse THEN [r |-> <<"1">>] ELSE EmptyDict
        p_ == IF ~IsNone(cursor.position) THEN [p |-> Get(cursor.position)] ELSE EmptyDict
    IN  Merge(Merge(o, r), p_)

\* CursorPagination.encode_cursor: after the tokens, parse.urlencode is
\* called, and the module binds no name `parse` (nor b64encode): NameError
encode_cursor(self, cursor) ==
    LET tokens == encode_tokens(cursor)
    IN  Raise("encode_cursor", "NameError")

\* CursorPagination.decode_cursor: None without the cursor parameter;
\* otherwise b64decode is called, a name the module does not bind, and
\* NameError is not among the exceptions the try statement catches
decode_cursor(self, request) ==
    IF ~HasKey(request, "cursor")
    THEN [op |-> "decode_cursor", raised |-> "", value |-> None, calls |-> <<>>]
    ELSE Raise("decode_cursor", "NameError")

Positions == {None, Some(<<"1">>), Some(<<"a", " ">>)}
Cursors == {Cursor(o, r, p) : o \in 0..MaxCount, r \in BOOLEAN, p \in Positions}
\* requests to a cursor-paginated list: with a cursor parameter or without
CursorRequests ==
    {EmptyDict, [cursor |-> <<>>], [cursor |-> <<"b", "z", "0", "x">>]}
    \cup {[page_size |-> l] : l \in LimitStrings}

InitCursor ==
    /\ table = FixtureTable(1)
    /\ links = FixtureLinks
    /\ nextId = 2
    /\ Idle
    /\ ser = IdleSer
    /\ ret = NoCall
    /\ hist = [cursor |-> Cursor(0, FALSE, None), request |-> EmptyDict]
    /\ view = IdleView
    /\ doc = IdleDoc
    /\ \E q \in {None, Some("page_size")}, ps \in {None, Some(2)} :
          paginator = [cls |-> "CursorPagination", page_size_query_param |-> q,
                       page_size |-> ps, max_page_size |-> Some(2),
                       offset_cutoff |-> MaxCount]

\* await paginator.get_page_size(request)
GetPageSize ==
    /\ \E request \in CursorRequests, e \in WithErrors :
          /\ ret' = get_page_size(paginator, request, e)
          /\ hist' = [hist EXCEPT !.request = request]
    /\ UNCHANGED <<table, links, nextId, ser, proc, iters, iter_count, pages, paginator, view, doc>>

\* await paginator.encode_cursor(cursor)
EncodeCursor ==
    /\ \E cursor \in Cursors :
          /\ cursor.offset <= paginator.offset_cutoff
          /\ ret' = encode_cursor(paginator, cursor)
          /\ hist' = [hist EXCEPT !.cursor = cursor]
    /\ UNCHANGED <<table, links, nextId, ser, proc, iters, iter_count, pages, paginator, view, doc>>

\* await paginator.decode_cursor(request): a request a client sends
DecodeCursor ==
    /\ \E request \in CursorRequests :
          /\ ret' = decode_cursor(paginator, request)
          /\ hist' = [hist EXCEPT !.request = request]
    /\ UNCHANGED <<table, links, nextId, ser, proc, iters, iter_count, pages, paginator, view, doc>>

NextCursor ==
    \/ GetPageSize
    \/ EncodeCursor
    \/ DecodeCursor

SpecCursor == InitCursor /\ [][NextCursor]_vars

\* C13: for every Cursor(offset, reverse, position) with 0 <= offset <=
\* offset_cutoff, encode_cursor produces a URL with a cursor parameter, and
\* decode_cursor of a request that carries a cursor parameter returns a
\* Cursor (or reports an invalid cursor with NotFound), which for the
\* parameter encode_cursor produced is the Cursor that was encoded.
C13_CursorRoundTrip ==
    /\ (ret.op = "encode_cursor") =>
          /\ ret.raised = ""
          /\ HasKey(Get(ret.value).url, "cursor")
    /\ (ret.op = "decode_cursor" /\ HasKey(hist.request, "cursor")) =>
          ret.raised \in {"", "NotFound"}

\* C12 for the cursor pagination: get_page_size returns a page size and does
\* not raise when page_size_query_param is set
C12_GetPageSize ==
    (ret.op = "get_page_size" /\ ~IsNone(paginator.page_size_query_param)) => ret.raised = ""

\* ----------------------------------------------------------- GenericAPIView
\* `class GenericAPIView(views.APIView)`: the class statement reads the name
\* APIView of the module views, which views.py does not bind; bound tells
\* whether the project has bound it before generics is imported
import_generics(bound) ==
    IF bound THEN [module |-> "imported", ret |-> Return("import", "generics", <<>>)]
    ELSE [module |-> "failed", ret |-> Raise("import", "AttributeError")]

\* what reading self.paginator gives: the property is an `async def`, so the
\* value is a new coroutine object, never None and not the paginator; the
\* body of the property runs only if that object is awaited
paginator_property(self) == Some("coroutine")

\* GenericAPIView.get_queryset
get_queryset(self) ==
    IF IsNone(self.queryset) THEN Raise("get_queryset", "AssertionError")
    ELSE Return("get_queryset", Get(self.queryset), <<>>)

\* GenericAPIView.filter_queryset with the filter backends of the view, none
filter_queryset(self, queryset) == queryset

\* GenericAPIView.paginate_queryset: the coroutine object is not None, and it
\* has no attribute paginate_queryset
view_paginate_queryset(self, queryset) ==
    LET p == paginator_property(self)
    IN  IF IsNone(p)
        THEN [op |-> "paginate_queryset", raised |-> "", value |-> None, calls |-> <<>>]
        ELSE Raise("paginate_queryset", "AttributeError")

\* GenericAPIView.get_paginated_response
get_paginated_response(self, page_data) ==
    LET p == paginator_property(self)
    IN  IF IsNone(p) THEN Raise("get_paginated_response", "AssertionError")
        ELSE Raise("get_paginated_response", "AttributeError")

\* serializer(queryset, many=True).data: the rows of the queryset, by id
serialize_many(tbl, queryset) ==
    LET ids == Sorted(queryset) IN [i \in DOMAIN ids |-> to_representation(ModelClass(ids[i], tbl[ids[i]]))]

\* ListModelAsyncMixin.list
list(self, tbl) ==
    LET q == get_queryset(self) IN
    IF q.raised # "" THEN Raise("list", q.raised)
    ELSE LET queryset == filter_queryset(self, Get(q.value))
             page == view_paginate_queryset(self, queryset)
         IN  IF page.raised # "" THEN Raise("list", page.raised)
             ELSE IF ~IsNone(page.value)
             THEN Raise("list", get_paginated_response(self, Get(page.value)).raised)
             ELSE Return("list", [paginated |-> FALSE, data |-> serialize_many(tbl, queryset)],
                         <<>>)

\* int(value) of the lookup of an integer primary key: ValueError otherwise
Matching(queryset, pk) ==
    IF IsNone(py_int(pk)) THEN {} ELSE {i \in queryset : i = Get(py_int(pk))}

\* get_object_or_404 of generics.py around django's get_object_or_404:
\* Http404 when no row matches or the lookup raises TypeError, ValueError
\* or ValidationError
get_object_or_404(tbl, queryset, pk) ==
    IF IsNone(py_int(pk)) THEN Raise("get_object_or_404", "Http404")
    ELSE IF Matching(queryset, pk) = {} THEN Raise("get_object_or_404", "Http404")
    ELSE LET id == CHOOSE i \in Matching(queryset, pk) : TRUE
         IN  Return("get_object_or_404", ModelClass(id, tbl[id]), <<>>)

\* GenericAPIView.get_object: sync_to_async(get_object_or_404) is given the
\* coroutine function of this module and raises TypeError ("sync_to_async
\* can only be applied to sync functions") before any lookup; the
\* permission check is not reached
get_object(self, tbl) ==
    LET q == get_queryset(self) IN
    IF q.raised # "" THEN [checked |-> <<>>, ret |-> Raise("get_object", q.raised)]
    ELSE IF ~HasKey(self.kwargs, "pk")
    THEN [checked |-> <<>>, ret |-> Raise("get_object", "AssertionError")]
    ELSE [checked |-> <<>>, ret |-> Raise("get_object", "TypeError")]

\* the rows a view class names as its queryset, or no queryset attribute
ViewQuerysets == {None} \cup {Some(q) : q \in SUBSET (1..2)}
\* the keyword arguments of the URL of a request
UrlKwargs == {EmptyDict} \cup {[pk |-> k] : k \in {<<"1">>, <<"2">>, <<"3">>, <<"a">>}}

\* a view class derived from GenericAPIView with its class attributes; the
\* module generics is not imported yet
InitView ==
    /\ table = FixtureTable(2)
    /\ links = FixtureLinks
    /\ nextId = 3
    /\ Idle
    /\ ser = IdleSer
    /\ ret = NoCall
    /\ paginator = IdlePaginator
    /\ doc = IdleDoc
    /\ hist = [kwargs |-> EmptyDict]
    /\ \E q \in ViewQuerysets, pc \in {None, Some("LimitOffsetAsyncPagination")} :
          view = [module |-> "unimported", queryset |-> q, pagination_class |-> pc,
                  kwargs |-> EmptyDict, _paginator |-> None, created |-> 0,
                  checked |-> <<>>]

\* import of aiodrf.generics
ImportGenerics ==
    /\ view.module = "unimported"
    /\ \E bound \in BOOLEAN :
          LET r == import_generics(bound)
          IN  /\ view' = [view EXCEPT !.module = r.module]
              /\ ret' = r.ret
    /\ UNCHANGED <<paginator, doc, table, links, nextId, ser, proc, iters, iter_count, pages,
                   hist>>

\* p = view.paginator
Paginator ==
    /\ view.module = "imported"
    /\ ret' = Return("paginator", Get(paginator_property(view)), <<>>)
    /\ UNCHANGED <<paginator, view, doc, table, links, nextId, ser, proc, iters, iter_count,
                   pages, hist>>

\* await view.paginate_queryset(queryset)
ViewPaginateQueryset ==
    /\ view.module = "imported"
    /\ \E queryset \in SUBSET (DOMAIN table) :
          ret' = view_paginate_queryset(view, queryset)
    /\ UNCHANGED <<paginator, view, doc, table, links, nextId, ser, proc, iters, iter_count,
                   pages, hist>>

\* await view.get_paginated_response(data)
GetPaginatedResponse ==
    /\ view.module = "imported"
    /\ ret' = get_paginated_response(view, <<>>)
    /\ UNCHANGED <<paginator, view, doc, table, links, nextId, ser, proc, iters, iter_count,
                   pages, hist>>

\* await view.list(request)
List ==
    /\ view.module = "imported"
    /\ ret' = list(view, table)
    /\ UNCHANGED <<paginator, view, doc, table, links, nextId, ser, proc, iters, iter_count,
                   pages, hist>>

\* a request with the keyword arguments of its URL, then
\* await view.get_object()
GetObject ==
    /\ view.module = "imported"
    /\ \E kwargs \in UrlKwargs :
          LET r == get_object([view EXCEPT !.kwargs = kwargs], table)
          IN  /\ view' = [view EXCEPT !.kwargs = kwargs, !.checked = r.checked]
              /\ ret' = r.ret
              /\ hist' = [kwargs |-> kwargs]
    /\ UNCHANGED <<paginator, doc, table, links, nextId, ser, proc, iters, iter_count, pages>>

\* await get_object_or_404(queryset, pk=pk)
GetObjectOr404 ==
    /\ view.module = "imported"
    /\ ~IsNone(view.queryset)
    /\ \E kwargs \in UrlKwargs \ {EmptyDict} :
          /\ ret' = get_object_or_404(table, Get(view.queryset), kwargs["pk"])
          /\ hist' = [kwargs |-> kwargs]
    /\ UNCHANGED <<paginator, view, doc, table, links, nextId, ser, proc, iters, iter_count,
                   pages>>

NextView ==
    \/ ImportGenerics
    \/ Paginator
    \/ ViewPaginateQueryset
    \/ GetPaginatedResponse
    \/ List
    \/ GetObject
    \/ GetObjectOr404

SpecView == InitView /\ [][NextView]_vars

\* C14: with pagination_class None, paginate_queryset returns None for every
\* queryset and list returns the serialization of the whole filtered
\* queryset in a plain response; a view object creates at most one
\* paginator.
C14_NoPagination ==
    /\ view.created <= 1
    /\ IsNone(view.pagination_class) =>
          /\ ret.op = "paginate_queryset" => ret.raised = "" /\ IsNone(ret.value)
          /\ (ret.op = "list" /\ ~IsNone(view.queryset)) =>
                /\ ret.raised = ""
                /\ ~Get(ret.value).paginated
                /\ Get(ret.value).data = serialize_many(table, Get(view.queryset))

\* C15: get_object returns the one object of the filtered queryset that
\* matches the lookup, after check_object_permissions ran for it without
\* raising, and raises Http404 when no object matches or the lookup value
\* cannot be converted.
C15_GetObject ==
    (ret.op = "get_object" /\ ~IsNone(view.queryset) /\ HasKey(hist.kwargs, "pk")) =>
        LET found == Matching(Get(view.queryset), hist.kwargs["pk"])
        IN  IF found = {} THEN ret.raised = "Http404"
            ELSE /\ ret.raised \in {"", "PermissionDenied"}
                 /\ Len(view.checked) = 1 /\ view.checked[1] \in found
                 /\ ret.raised = "" => Get(ret.value).id \in found

\* ------------------------------------------------------- JSON:API documents
\* the relationship fields of the model Test, in the order of declaration
RelationNames == <<"foreign_key", "many_to_many">>
\* get_type_from_model(TestIncluded), the model both relationships point to
RelatedType == "test-included"

\* get_related_field_objects(await getattr(instance, rel)): the objects of a
\* to-many manager, or the one object of a foreign key, or none; by id
get_related_field_objects(lnk, instance, rel) ==
    IF rel = "many_to_many" THEN Sorted(LinksOf(lnk, instance.id))
    ELSE IF instance.foreign_key_id = NullId THEN <<>>
    ELSE <<instance.foreign_key_id>>

\* a python dict as the sequence of its items in insertion order
DictHas(d, key) == \E i \in DOMAIN d : d[i].key = key
\* d[key] = value
DictSet(d, key, value) ==
    IF DictHas(d, key)
    THEN [i \in DOMAIN d |-> IF d[i].key = key THEN [key |-> key, value |-> value] ELSE d[i]]
    ELSE Append(d, [key |-> key, value |-> value])
\* list(d.values())
DictValues(d) == [i \in DOMAIN d |-> d[i].value]

\* the loop of _get_included over the objects of one relationship: an object
\* whose key "<type>_<id>" is in included already is skipped
RECURSIVE include_objects(_, _)
include_objects(objects_list, included) ==
    IF Len(objects_list) = 0 THEN included
    ELSE LET data_included == [type |-> RelatedType, id |-> Head(objects_list)]
             key == <<data_included.type, data_included.id>>
         IN  IF DictHas(included, key) THEN include_objects(Tail(objects_list), included)
             ELSE include_objects(Tail(objects_list), DictSet(included, key, data_included))

\* the loop of _get_included over rels.keys(); rels[rel]['links'] is there
\* only when the relationships were serialized with a url (KeyError
\* otherwise), and included keeps what the loop has put in before
RECURSIVE include_rels(_, _, _, _, _)
include_rels(lnk, instance, names, rels, included) ==
    IF Len(names) = 0 THEN [included |-> included, ret |-> Return("_get_included", "None", <<>>)]
    ELSE IF ~HasKey(rels, Head(names)) THEN include_rels(lnk, instance, Tail(names), rels, included)
    ELSE IF ~rels[Head(names)].links
    THEN [included |-> included, ret |-> Raise("_get_included", "KeyError")]
    ELSE include_rels(lnk, instance, Tail(names), rels,
                      include_objects(get_related_field_objects(lnk, instance, Head(names)),
                                      included))

\* JSONAPISerializer._get_included
_get_included(lnk, instance, rels, included, is_included_disabled) ==
    IF rels = EmptyDict \/ is_included_disabled
    THEN [included |-> included, ret |-> Return("_get_included", "None", <<>>)]
    ELSE include_rels(lnk, instance, RelationNames, rels, included)

\* JSONAPIRelationsSerializer.to_representation: for the first field it
\* iterates JSONAPIObjectIdSerializer(objects, many=True).data in a plain
\* `for`; data is an async property, its value a coroutine object, which is
\* not iterable: TypeError. With no field declared the result is {}
relations_to_representation(self, instance) ==
    IF self.declared = {} THEN Return("to_representation", EmptyDict, <<>>)
    ELSE Raise("to_representation", "TypeError")

\* JSONAPISerializer.to_representation: {'data': ..., 'included': [...]}
JSONAPI_to_representation(self, lnk, instance) ==
    LET rel == IF self.declared # {} THEN relations_to_representation(self, instance)
               ELSE Return("to_representation", EmptyDict, <<>>)
    IN  IF rel.raised # "" THEN Raise("to_representation", rel.raised)
        ELSE LET rels == Get(rel.value)
                 inc == IF self.is_included_disabled THEN [included |-> <<>>, ret |-> NoCall]
                        ELSE _get_included(lnk, instance, rels, <<>>, FALSE)
             IN  IF inc.ret.raised # "" THEN Raise("to_representation", inc.ret.raised)
                 ELSE Return("to_representation",
                             [data |-> <<instance.id>>, relationships |-> rels,
                              included |-> DictValues(inc.included)], <<>>)

\* JSONAPIManySerializer._to_representation_instance for each instance of
\* the iterable, with one data list and one included dict for all of them;
\* the child is serialized with is_included_disabled, and an exception
\* leaves data and included as they are
RECURSIVE many_instances(_, _, _, _, _)
many_instances(self, lnk, iterable, data_, included) ==
    IF Len(iterable) = 0 THEN [data |-> data_, included |-> included, raised |-> ""]
    ELSE LET obj_data == JSONAPI_to_representation(
                             [self EXCEPT !.is_included_disabled = TRUE], lnk, Head(iterable))
         IN  IF obj_data.raised # ""
             THEN [data |-> data_, included |-> included, raised |-> obj_data.raised]
             ELSE LET inc == _get_included(lnk, Head(iterable),
                                           Get(obj_data.value).relationships, included,
                                           self.is_included_disabled)
                  IN  IF inc.ret.raised # ""
                      THEN [data |-> data_ \o Get(obj_data.value).data,
                            included |-> inc.included, raised |-> inc.ret.raised]
                      ELSE many_instances(self, lnk, Tail(iterable),
                                          data_ \o Get(obj_data.value).data, inc.included)

\* JSONAPIManySerializer.to_representation: `async for` over the iterable,
\* which raises TypeError at once for a list; after a TypeError the
\* iterable is gone through again with a plain `for`, with the same data
\* and included
JSONAPIMany_to_representation(self, lnk, iterable, is_list) ==
    LET first == IF is_list THEN [data |-> <<>>, included |-> <<>>, raised |-> "TypeError"]
                 ELSE many_instances(self, lnk, iterable, <<>>, <<>>)
        last == IF first.raised = "TypeError"
                THEN many_instances(self, lnk, iterable, first.data, first.included)
                ELSE first
    IN  IF last.raised # "" THEN Raise("to_representation", last.raised)
        ELSE Return("to_representation",
                    [data |-> last.data, relationships |-> EmptyDict,
                     included |-> DictValues(last.included)], <<>>)

\* the rows of the many-to-many table of the fixtures
DocLinks == {{}, {<<1, 1>>, <<2, 1>>}, {<<1, 1>>, <<1, 2>>, <<2, 2>>}}
\* the relationships dicts _get_included is called with: per relationship,
\* whether it carries links
RelsDicts ==
    {EmptyDict}
    \cup {[r \in D |-> [links |-> l]] : D \in (SUBSET {"foreign_key", "many_to_many"}) \ {{}},
                                        l \in BOOLEAN}

\* a JSONAPISerializer class for the model Test that declares some of its
\* relationships, and two stored rows
InitDoc ==
    /\ \E f1 \in {NullId, 1}, f2 \in {NullId, 1, 2} :
          table = [i \in 1..2 |-> [text |-> "a", foreign_key_id |-> IF i = 1 THEN f1 ELSE f2]]
    /\ links \in DocLinks
    /\ nextId = 3
    /\ Idle
    /\ \E declared \in SUBSET {"foreign_key", "many_to_many"}, disabled \in BOOLEAN :
          ser = [cls |-> "JSONAPISerializer", declared |-> declared,
                 is_included_disabled |-> disabled]
    /\ ret = NoCall
    /\ paginator = IdlePaginator
    /\ view = IdleView
    /\ doc = <<>>
    /\ hist = [iterable |-> <<>>]

\* await serializer.to_representation(instance)
ToRepresentation ==
    /\ \E id \in DOMAIN table :
          /\ ret' = JSONAPI_to_representation(ser, links, ModelClass(id, table[id]))
          /\ hist' = [iterable |-> <<id>>]
    /\ UNCHANGED <<paginator, view, doc, table, links, nextId, ser, proc, iters, iter_count,
                   pages>>

\* await many_serializer.to_representation(iterable), iterable a list or a
\* queryset
ManyToRepresentation ==
    /\ \E iterable \in {<<1>>, <<1, 2>>, <<2, 1>>}, is_list \in BOOLEAN :
          /\ ret' = JSONAPIMany_to_representation(
                        ser, links, [i \in DOMAIN iterable |->
                                        ModelClass(iterable[i], table[iterable[i]])], is_list)
          /\ hist' = [iterable |-> iterable]
    /\ UNCHANGED <<paginator, view, doc, table, links, nextId, ser, proc, iters, iter_count,
                   pages>>

\* await serializer._get_included(instance, rels, included), included the
\* dict of the calls before
GetIncluded ==
    /\ \E id \in DOMAIN table, rels \in RelsDicts :
          LET r == _get_included(links, ModelClass(id, table[id]), rels, doc,
                                 ser.is_included_disabled)
          IN  /\ doc' = r.included
              /\ ret' = r.ret
              /\ hist' = [iterable |-> <<id>>]
    /\ UNCHANGED <<paginator, view, table, links, nextId, ser, proc, iters, iter_count, pages>>

NextDoc ==
    \/ ToRepresentation
    \/ ManyToRepresentation
    \/ GetIncluded

SpecDoc == InitDoc /\ [][NextDoc]_vars

\* the ids of the objects one relationship of a stored row points to
RelatedIds(id, rel) ==
    LET objects == get_related_field_objects(links, ModelClass(id, table[id]), rel)
    IN  {objects[k] : k \in DOMAIN objects}

\* the related objects of the serialized resources, through the
\* relationships the serializer declares
Reachable ==
    UNION {{<<RelatedType, o>> : o \in
              UNION {RelatedIds(hist.iterable[i], rel) : rel \in ser.declared}}
           : i \in DOMAIN hist.iterable}

\* C16: the document of one resource or of a list of resources is produced,
\* no two entries of its included have the same (type, id), and every
\* related object reachable through a declared relationship is in it.
C16_IncludedOnce ==
    (ret.op = "to_representation" /\ ~ser.is_included_disabled) =>
        /\ ret.raised = ""
        /\ LET included == Get(ret.value).included
           IN  /\ \A i, j \in DOMAIN included :
                     (included[i].type = included[j].type /\ included[i].id = included[j].id)
                         => i = j
               /\ {<<included[i].type, included[i].id>> : i \in DOMAIN included} = Reachable

\* ------------------------------------------------------------ JSONAPIFilter
\* the strings of the model of the filter, as sequences of characters
TEXT == <<"t", "e", "x", "t">>
FKEY == <<"f", "o", "r", "e", "i", "g", "n", "_", "k", "e", "y">>
M2M == <<"m", "a", "n", "y", "_", "t", "o", "_", "m", "a", "n", "y">>
FILTER == <<"f", "i", "l", "t", "e", "r", "[">>
\* s.startswith(prefix)
startswith(s, prefix) == Len(s) >= Len(prefix) /\ SubSeq(s, 1, Len(prefix)) = prefix
\* sub in s
contains(s, sub) == \E i \in 1..(Len(s) - Len(sub) + 1) : SubSeq(s, i, i + Len(sub) - 1) = sub
\* s.split(sep): the pieces of s between the occurrences of sep, from the left
RECURSIVE split(_, _)
split(s, sep) ==
    IF ~contains(s, sep) THEN <<s>>
    ELSE LET i == CHOOSE k \in 1..(Len(s) - Len(sep) + 1) :
                      /\ SubSeq(s, k, k + Len(sep) - 1) = sep
                      /\ \A j \in 1..(k - 1) : SubSeq(s, j, j + Len(sep) - 1) # sep
         IN  <<SubSeq(s, 1, i - 1)>> \o split(SubSeq(s, i + Len(sep), Len(s)), sep)
\* s.replace(ch, '') for one character
remove_char(s, ch) == SelectSeq(s, LAMBDA c : c # ch)
\* s.isnumeric()
isnumeric(s) == Len(s) > 0 /\ \A i \in DOMAIN s : IsDigit(s[i])

\* the attributes of the model class Test that have a field, and whether the
\* field is a relation; getattr(model, key, None) is None for any other
\* name that is no attribute of the class
ModelFields ==
    [k \in {TEXT, FKEY, M2M} |-> k # TEXT]

\* key.split('[')[-1].replace(']', '')
filter_inner(name) == remove_char(split(name, <<"[">>)[Len(split(name, <<"[">>))], "]")
\* the attribute name of a filter parameter: what stands before '__'
filter_key(name) ==
    IF contains(filter_inner(name), <<"_", "_">>) THEN split(filter_inner(name), <<"_", "_">>)[1]
    ELSE filter_inner(name)

\* the list comprehension that makes an int of every numeric piece
filter_values(val) ==
    [i \in DOMAIN val |-> IF isnumeric(val[i]) THEN [int |-> Get(py_int(val[i]))]
                          ELSE [str |-> val[i]]]

\* the body of the loop of _get_params for one query parameter: params after
\* it, and the exception it raised
filter_param(params, name, val) ==
    IF ~startswith(name, FILTER) THEN [params |-> params, raised |-> ""]
    ELSE LET inner == filter_inner(name)
             dunder == contains(inner, <<"_", "_">>)
             key == filter_key(name)
             lookup == IF dunder THEN <<"_", "_">> \o split(inner, <<"_", "_">>)[2]
                       ELSE <<"_", "_", "i", "n">>
         IN  IF key \notin DOMAIN ModelFields
             THEN \* getattr gave None and None has no attribute field
                  [params |-> params, raised |-> "AttributeError"]
             ELSE LET full == IF ModelFields[key] THEN key \o <<"_", "_", "i", "d">> \o lookup
                              ELSE key \o lookup
                      is_int == /\ ~contains(val, <<",">>)
                                /\ lookup # <<"_", "_", "i", "n">>
                                /\ isnumeric(val)
                      is_range == ~is_int /\ lookup = <<"_", "_", "r", "a", "n", "g", "e">>
                      pieces == split(val, <<",">>)
                  IN  IF is_range /\ Len(pieces) < 2
                      THEN [params |-> params, raised |-> "IndexError"]
                      ELSE LET lst == IF is_range THEN SubSeq(pieces, 1, 2) ELSE pieces
                           IN  IF ~is_int /\ Len(lst[1]) > 0
                               THEN [params |-> With(params, full, filter_values(lst)),
                                     raised |-> ""]
                               ELSE [params |-> With(params, full, <<>>), raised |-> ""]

\* JSONAPIFilter._get_params: self.params after the loop over the items of
\* request.query_params
RECURSIVE _get_params(_, _)
_get_params(params, query_params) ==
    IF Len(query_params) = 0 THEN [params |-> params, raised |-> ""]
    ELSE LET r == filter_param(params, Head(query_params).name, Head(query_params).val)
         IN  IF r.raised # "" THEN r ELSE _get_params(r.params, Tail(query_params))

\* names and values of the query parameters of a request
ParamNames ==
    {<<"f", "i", "l", "t", "e", "r", "[", "t", "e", "x", "t", "]">>,
     <<"f", "i", "l", "t", "e", "r", "[", "f", "o", "o", "]">>,
     <<"p", "a", "g", "e">>,
     <<"f", "i", "l", "t", "e", "r", "[", "f", "o", "r", "e", "i", "g", "n", "_", "k", "e", "y", "]">>,
     <<"f", "i", "l", "t", "e", "r", "[", "t", "e", "x", "t", "_", "_", "r", "a", "n", "g", "e", "]">>}
ParamValues == {<<"a">>, <<"1">>, <<"a", ",", "b">>, <<>>}
\* request.query_params.items(): up to two parameters, in their order
QueryParams ==
    {<<>>}
    \cup {<<[name |-> n, val |-> v]>> : n \in ParamNames, v \in ParamValues}
    \cup {q \in {<<[name |-> n1, val |-> <<"a">>], [name |-> n2, val |-> v2]>> :
                    n1 \in ParamNames, n2 \in ParamNames, v2 \in ParamValues} :
            q[1].name # q[2].name}

\* JSONAPIFilter(queryset, request) for the model Test: self.params = {}
InitFilter ==
    /\ table = FixtureTable(1)
    /\ links = FixtureLinks
    /\ nextId = 2
    /\ Idle
    /\ ser = IdleSer
    /\ ret = NoCall
    /\ paginator = IdlePaginator
    /\ view = IdleView
    /\ doc = [params |-> EmptyDict]
    /\ hist = [request |-> <<>>, before |-> EmptyDict]

\* a filter for a request, then await filter._get_params()
GetParams ==
    /\ \E request \in QueryParams :
          LET r == _get_params(EmptyDict, request)
          IN  /\ doc' = [params |-> r.params]
              /\ ret' = IF r.raised # "" THEN Raise("_get_params", r.raised)
                        ELSE Return("_get_params", r.params, <<>>)
              /\ hist' = [request |-> request, before |-> EmptyDict]
    /\ UNCHANGED <<paginator, view, table, links, nextId, ser, proc, iters, iter_count, pages>>

\* await filter._get_params() once more on the same filter: self.params
\* keeps the entries of the call before
GetParamsAgain ==
    /\ ret.op = "_get_params"
    /\ LET r == _get_params(doc.params, hist.request)
       IN  /\ doc' = [params |-> r.params]
           /\ ret' = IF r.raised # "" THEN Raise("_get_params", r.raised)
                     ELSE Return("_get_params", r.params, <<>>)
           /\ hist' = [hist EXCEPT !.before = doc.params]
    /\ UNCHANGED <<paginator, view, table, links, nextId, ser, proc, iters, iter_count, pages>>

NextFilter ==
    \/ GetParams
    \/ GetParamsAgain

SpecFilter == InitFilter /\ [][NextFilter]_vars

\* the filter parameters of the request that name an attribute of the model
KnownParams ==
    SelectSeq(hist.request,
              LAMBDA q : startswith(q.name, FILTER) /\ filter_key(q.name) \in DOMAIN ModelFields)

\* C17: the filter is what the parameters that start with 'filter[' and
\* name an attribute of the model give; a filter parameter naming an unknown
\* attribute and any other parameter neither raise nor change it.
C17_FilterParams ==
    (ret.op = "_get_params" /\ _get_params(hist.before, KnownParams).raised = "") =>
        /\ ret.raised = ""
        /\ Get(ret.value) = _get_params(hist.before, KnownParams).params
====
